---- MODULE Spec2Model ----
(***************************************************************************)
(* Model of the pipeline execution engine of PP-62/cicd:                   *)
(*   bot/orchestrator.py    PipelineOrchestrator (run registry, driver)    *)
(*   worker/job_processor.py JobProcessor (dispatcher, container job)      *)
(*   worker/job_executors.py Timer / Confirmation / JobGroup executors     *)
(*   worker/docker_executor.py DockerExecutor (image pull, step run)       *)
(*   shared/logger.py       Logger (append-only line log and its readers)  *)
(*   shared/yaml_parser.py  PipelineConfig, extract_step_info              *)
(*   shared/pipeline_storage.py PipelineStorage (sidecar files)            *)
(* Every asyncio task is a frame with a program position; an action is the *)
(* code a task runs between two suspension points.                         *)
(* Specifications:                                                         *)
(*   Spec          the engine: runs, jobs, groups, callbacks               *)
(*   ShutdownSpec  the engine while asyncio.run cancels the tasks          *)
(*   LoggerSpec    concurrent Logger._write_line calls and the readers     *)
(*   RegistrySpec  successive run_pipeline calls and the run registry      *)
(*   ParserSpec    YAMLParser.parse over manifests                         *)
(*   PusherSpec    the engine with the status pusher of each run           *)
(*   PoolSpec      the thread pool of DockerExecutor                       *)
(*   ButtonSpec    the callback data of a confirmation button              *)
(*   StorageSpec   PipelineStorage and its two sidecar files               *)
(*   SubscriptionSpec  starts and subscriptions of chats                   *)
(*   TerminationSpec   the engine under fair scheduling, cyclic manifests  *)
(*   ChatSpec      the engine with failing chat calls and button presses   *)
(***************************************************************************)
EXTENDS Integers, Sequences, FiniteSets, TLC

VARIABLES
    job_counter,            \* PipelineOrchestrator._job_counter
    running_jobs,           \* PipelineOrchestrator.running_jobs (job_id -> job_info)
    driver,                 \* position of the _execute_pipeline task of each run
    frames,                 \* per run: the process_job / JobGroupExecutor invocations
    log,                    \* the log file, one record per line
    pending_confirmations,  \* ConfirmationJobExecutor.pending_confirmations
    callbacks,              \* handle_callback invocations and what each returned
    start_errors,           \* run_pipeline calls that raised to their caller
    writers,                \* Logger._write_line calls in flight or finished
    yaml_content,           \* the manifest text handed to YAMLParser.parse
    parsed,                 \* what YAMLParser.parse did with yaml_content
    shutdown,               \* asyncio.run is closing the loop: tasks were cancelled
    status_updates,         \* per run: the _periodic_status_update task and the final edits
    pool,                   \* DockerExecutor.executor: the calls handed to the thread pool
    button,                 \* a confirmation button: its callback data and how it was decoded
    files,                  \* PipelineStorage: what is on disk in the two sidecar files
    saving                  \* PipelineStorage: the _save_* call in flight

\* the state of the execution engine
engine_vars == <<job_counter, running_jobs, driver, frames,
                 pending_confirmations, callbacks, start_errors, shutdown,
                 status_updates>>

\* the state of the worker pool, of the button codec and of the sidecar files
service_vars == <<pool, button, files, saving>>

\* the state of the logger's writers, of the parser and of the loop
other_vars == <<writers, yaml_content, parsed, shutdown, service_vars>>

\* what a call of run_pipeline leaves alone outside the engine
start_frame == <<writers, yaml_content, parsed, shutdown, pool, button, saving>>

vars == <<job_counter, running_jobs, driver, frames, log,
          pending_confirmations, callbacks, start_errors,
          writers, yaml_content, parsed, shutdown,
          status_updates, pool, button, files, saving>>

-----------------------------------------------------------------------------
(* Bounds of the model *)

\* number of run_pipeline calls explored; a call is explored when no earlier
\* run is still in flight (see run_pipeline)
MaxRuns == 1

\* number of button presses delivered to handle_callback
MaxCallbacks == 1

\* number of Logger._write_line calls explored by LoggerSpec
MaxWrites == 3

\* number of run_pipeline calls explored by RegistrySpec
MaxStarts == 3

-----------------------------------------------------------------------------
(* Python values *)

\* job_config of a name the mapping does not hold (get_job returns None)
NoJob == [type |-> "None", image |-> FALSE, steps |-> <<>>, duration |-> 0,
          jobs |-> <<>>, job_groups |-> <<>>]

\* chat coordinates handed to run_pipeline; 0 stands for an absent value
\* (None and 0 are both falsy in `if not chat_id or not message_id`)
NoId == 0
ChatIds == {7}
MessageIds == {NoId, 5}

\* main.py builds the orchestrator with a Bot, so JobProcessor owns a
\* ConfirmationJobExecutor
bot == TRUE

\* exit codes a container can report (StatusCode of container.wait)
ExitCodes == {0, 1}

\* exit_code=None of _format_log_line
NoExit == -1

\* no manifest text was handed to the parser yet
NoYaml == [name |-> FALSE, order |-> <<>>, jobs |-> <<>>]

-----------------------------------------------------------------------------
(* Manifests the ManifestSource can serve, as YAMLParser.parse returns them: *)
(* `order` is the key order of the `jobs` mapping, `jobs` the mapping.       *)

Step(name, has_image) == [name |-> name, has_image |-> has_image]
Ref(name, is_necessary) == [name |-> name, is_necessary |-> is_necessary]

DefaultJob(image, steps) ==
    [type |-> "default", image |-> image, steps |-> steps, duration |-> 0,
     jobs |-> <<>>, job_groups |-> <<>>]
TimerJob(duration) ==
    [type |-> "timer", image |-> FALSE, steps |-> <<>>, duration |-> duration,
     jobs |-> <<>>, job_groups |-> <<>>]
ConfirmationJob ==
    [type |-> "confirmation", image |-> FALSE, steps |-> <<>>, duration |-> 0,
     jobs |-> <<>>, job_groups |-> <<>>]
GroupJob(jobs, job_groups) ==
    [type |-> "job_group", image |-> FALSE, steps |-> <<>>, duration |-> 0,
     jobs |-> jobs, job_groups |-> job_groups]

\* a timer duration that int() cannot coerce
BadDuration == -1

Manifests ==
    [name \in {"seq.yaml", "par.yaml", "mix.yaml", "gate.yaml", "ask.yaml",
               "skip.yaml", "nap.yaml", "loop.yaml"} |->
        CASE name = "seq.yaml" ->
                [order |-> <<"build", "pause">>,
                 jobs |-> [j \in {"build", "pause"} |->
                    IF j = "build"
                    THEN DefaultJob(TRUE, <<Step("compile", FALSE), Step("test", FALSE),
                                            Step("package", FALSE)>>)
                    ELSE TimerJob(1)]]
          [] name = "par.yaml" ->
                [order |-> <<"fan", "lint", "unit">>,
                 jobs |-> [j \in {"fan", "lint", "unit"} |->
                    CASE j = "fan"  -> GroupJob(<<Ref("lint", FALSE), Ref("unit", TRUE)>>, <<>>)
                      [] j = "lint" -> TimerJob(60)
                      [] j = "unit" -> DefaultJob(TRUE, <<Step("pytest", FALSE)>>)]]
          [] name = "mix.yaml" ->
                [order |-> <<"both", "flaky", "solid">>,
                 jobs |-> [j \in {"both", "flaky", "solid"} |->
                    CASE j = "both"  -> GroupJob(<<Ref("flaky", FALSE), Ref("solid", TRUE)>>, <<>>)
                      [] j = "flaky" -> DefaultJob(TRUE, <<Step("probe", FALSE)>>)
                      [] j = "solid" -> TimerJob(1)]]
          [] name = "gate.yaml" ->
                [order |-> <<"outer", "approve", "inner">>,
                 jobs |-> [j \in {"outer", "inner", "approve"} |->
                    CASE j = "outer"   -> GroupJob(<<Ref("approve", FALSE)>>,
                                                   <<Ref("inner", FALSE)>>)
                      [] j = "inner"   -> GroupJob(<<Ref("ghost", FALSE), Ref("approve", TRUE)>>,
                                                   <<>>)
                      [] j = "approve" -> ConfirmationJob]]
          [] name = "ask.yaml" ->
                [order |-> <<"approve">>,
                 jobs |-> [j \in {"approve"} |-> ConfirmationJob]]
          [] name = "skip.yaml" ->
                [order |-> <<"wrap", "late", "hollow">>,
                 jobs |-> [j \in {"wrap", "late", "hollow"} |->
                    CASE j = "wrap"   -> GroupJob(<<Ref("late", TRUE)>>,
                                                  <<Ref("late", FALSE), Ref("hollow", FALSE)>>)
                      [] j = "late"   -> TimerJob(BadDuration)
                      [] j = "hollow" -> GroupJob(<<>>, <<Ref("late", TRUE)>>)]]
          [] name = "nap.yaml" ->
                [order |-> <<"nap", "late">>,
                 jobs |-> [j \in {"nap", "late"} |->
                    IF j = "nap" THEN TimerJob(0) ELSE TimerJob(BadDuration)]]
          \* a group that names itself in job_groups; YAMLParser.parse accepts it
          [] name = "loop.yaml" ->
                [order |-> <<"spin">>,
                 jobs |-> [j \in {"spin"} |-> GroupJob(<<>>, <<Ref("spin", FALSE)>>)]]]

\* the manifest whose run creates a task of the group `spin` for every task
\* of `spin` it runs
CyclicManifests == {"loop.yaml"}

\* the manifests whose runs create finitely many tasks
ManifestNames == DOMAIN Manifests \ CyclicManifests

\* the keys of the mapping `jobs` in the order yaml.safe_load inserted them,
\* which is the order of the manifest's text
SourceKeys(p) == Manifests[p].order

\* list_jobs over a mapping that is walked from its last key
list_jobs_Reversed(p) ==
    [i \in 1..Len(SourceKeys(p)) |-> SourceKeys(p)[Len(SourceKeys(p)) + 1 - i]]

\* PipelineConfig.list_jobs
list_jobs(p) == Manifests[p].order

\* PipelineConfig.get_job: the job mapping's .get, None for an unknown name
get_job(p, job_name) ==
    IF job_name \in DOMAIN Manifests[p].jobs THEN Manifests[p].jobs[job_name] ELSE NoJob

-----------------------------------------------------------------------------
(* shared/logger.py *)

\* Logger._format_log_line: the fields of one line
\*   [ts] JOB:<job> STEP:<step> <kind>:<content>[ EXIT:<exit>]
format_log_line(job_id, step_name, log_type, content, exit_code) ==
    [job |-> job_id, step |-> step_name, kind |-> log_type,
     content |-> content, exit |-> exit_code]

\* _write_line with the file opened in mode 'w': the open truncates the file
write_line_Truncate(lg, line) == <<line>>

\* Logger._write_line: the file is opened in mode 'a' and line + '\n' is
\* written by one write call, which the operating system appends at the
\* end of the file as it is at that moment
write_line(lg, line) == Append(lg, line)

\* Logger.log_status
log_status(lg, job_id, step_name, status) ==
    write_line(lg, format_log_line(job_id, step_name, "STATUS", status, NoExit))

\* Logger.log_error
log_error(lg, job_id, step_name, error) ==
    write_line(lg, format_log_line(job_id, step_name, "ERROR", error, NoExit))

\* Logger.log_output: `content` is given as its lines (content.split('\n'));
\* a blank line is skipped
RECURSIVE log_output(_, _, _, _)
log_output(lg, job_id, step_name, lines) ==
    IF lines = <<>> THEN lg
    ELSE log_output(
            IF Head(lines) # ""
            THEN write_line(lg, format_log_line(job_id, step_name, "LOG", Head(lines), NoExit))
            ELSE lg,
            job_id, step_name, Tail(lines))

\* Logger.log_step_completion
log_step_completion(lg, job_id, step_name, exit_code) ==
    write_line(lg, format_log_line(job_id, step_name, "STATUS",
                               IF exit_code = 0 THEN "success" ELSE "failed",
                               exit_code))

\* str(job_id): the decimal digits of a positive integer
RECURSIVE Digits(_)
Digits(n) == IF n < 10 THEN <<n>> ELSE Append(Digits(n \div 10), n % 10)

IsPrefix(s, t) == Len(s) <= Len(t) /\ SubSeq(t, 1, Len(s)) = s

\* f"JOB:{job_id}" in line: the text JOB:<digits of job_id> occurs in the
\* line when those digits begin the digits of the line's own JOB field
JobMatches(job_id, line) == IsPrefix(Digits(job_id), Digits(line.job))

\* Logger.get_job_status: the last STATUS value of a matching line
RECURSIVE get_job_status_from(_, _, _)
get_job_status_from(lg, job_id, last_status) ==
    IF lg = <<>> THEN last_status
    ELSE get_job_status_from(
            Tail(lg), job_id,
            IF JobMatches(job_id, Head(lg)) /\ Head(lg).kind = "STATUS"
            THEN Head(lg).content ELSE last_status)

get_job_status(lg, job_id) == get_job_status_from(lg, job_id, "None")

\* Logger.get_job_logs: the matching lines in file order ('\n'.join(lines))
get_job_logs(lg, job_id) == SelectSeq(lg, LAMBDA line : JobMatches(job_id, line))

-----------------------------------------------------------------------------
(* Frames: one per invocation of process_job or JobGroupExecutor.execute.   *)
(* parent = 0 for a top-level job awaited by process_pipeline, otherwise    *)
(* the frame of the group whose asyncio task this is.                       *)

NewFrame(name, parent, is_necessary, direct) ==
    [name |-> name, parent |-> parent, is_necessary |-> is_necessary,
     direct |-> direct,         \* TRUE: task of JobGroupExecutor.execute (a job_groups entry)
     pc |-> "created",          \* created, sleeping, pulling, executing, waiting, done
     step |-> 0,                \* index of the step the for loop is at
     steps_completed |-> 0, steps_failed |-> 0, job_status |-> "success",
     completed |-> 0, failed |-> 0,
     outcome |-> "none",        \* returned status, or raised / CancelledError
     settled_at |-> 0,          \* rank among the settled frames of the run
     cancel_requested |-> FALSE, \* task.cancel() was called on this task
     pulls |-> <<>>,            \* pull_image calls made: <<step index, available>>
     execs |-> <<>>]            \* execute_step calls made: <<step index, exit code>>

Settled(fs) == {k \in DOMAIN fs : fs[k].pc = "done"}

\* the return (or raise) of a frame
Settle(fs, i, outcome) ==
    [fs EXCEPT ![i].pc = "done", ![i].outcome = outcome,
               ![i].settled_at = Cardinality(Settled(fs)) + 1]

Children(fs, i) == {k \in DOMAIN fs : fs[k].parent = i}

Ctx(fs, lg) == [fs |-> fs, lg |-> lg]

-----------------------------------------------------------------------------
(* worker/job_executors.py: TimerJobExecutor *)

\* int(duration) succeeds
CoercibleToInt(duration) == duration # BadDuration

\* TimerJobExecutor.execute with STATUS running written before int(duration)
TimerExecute_RunningFirst(r, cfg, fs, lg, i) ==
    IF ~CoercibleToInt(cfg.duration)
    THEN Ctx(Settle(fs, i, "failed"),
             log_error(log_status(lg, r, fs[i].name, "running"),
                       r, fs[i].name, "bad duration"))
    ELSE Ctx([fs EXCEPT ![i].pc = "sleeping"],
             log_output(log_status(lg, r, fs[i].name, "running"),
                        r, fs[i].name, <<"waiting">>))

\* TimerJobExecutor.execute up to asyncio.sleep
TimerExecute(r, cfg, fs, lg, i) ==
    IF ~CoercibleToInt(cfg.duration)
    THEN Ctx(Settle(fs, i, "failed"), log_error(lg, r, fs[i].name, "bad duration"))
    ELSE Ctx([fs EXCEPT ![i].pc = "sleeping"],
             log_output(log_status(lg, r, fs[i].name, "running"),
                        r, fs[i].name, <<"waiting">>))

-----------------------------------------------------------------------------
(* worker/job_executors.py: ConfirmationJobExecutor *)

\* The call self.confirmation_executor.execute(job_id=job_id, ...) of
\* process_job.  execute is declared without `self`, so the bound method
\* passes the executor as the first positional parameter, job_id, and the
\* keyword job_id=job_id then gives that parameter a second value: the call
\* raises TypeError before the coroutine body runs.
ConfirmationExecute(r, cfg, fs, lg, i) ==
    Ctx(Settle(fs, i, "raised"), lg)

-----------------------------------------------------------------------------
(* worker/job_executors.py: JobGroupExecutor, task creation *)

RECURSIVE JobTasks(_, _)
JobTasks(entries, parent) ==
    IF entries = <<>> THEN <<>>
    ELSE <<NewFrame(Head(entries).name, parent, Head(entries).is_necessary, FALSE)>>
         \o JobTasks(Tail(entries), parent)

\* a job_groups entry becomes a task only when it names a job of type job_group
RECURSIVE GroupTasks(_, _, _)
GroupTasks(p, entries, parent) ==
    IF entries = <<>> THEN <<>>
    ELSE (IF get_job(p, Head(entries).name).type = "job_group"
          THEN <<NewFrame(Head(entries).name, parent, Head(entries).is_necessary, TRUE)>>
          ELSE <<>>)
         \o GroupTasks(p, Tail(entries), parent)

\* JobGroupExecutor.execute up to asyncio.wait, which raises ValueError for
\* an empty list of tasks
GroupExecute(r, p, cfg, fs, lg, i) ==
    LET all_tasks == JobTasks(cfg.jobs, i) \o GroupTasks(p, cfg.job_groups, i)
        lg1 == log_status(lg, r, fs[i].name, "running")
    IN  IF all_tasks = <<>>
        THEN Ctx(Settle(fs, i, "raised"), lg1)
        ELSE Ctx([fs EXCEPT ![i].pc = "waiting"] \o all_tasks, lg1)

-----------------------------------------------------------------------------
(* worker/job_processor.py: the container job of process_job *)

\* YAMLParser.extract_step_info finds an image for the step
StepImage(cfg, step) == step.has_image \/ cfg.image

\* the head of the `for step in steps` loop at index fs[i].step, and the code
\* after the loop when the steps are exhausted
ContainerLoop(r, cfg, fs, lg, i) ==
    LET s == fs[i].step IN
    IF s > Len(cfg.steps)
    THEN Ctx(Settle(fs, i, fs[i].job_status),
             log_status(lg, r, fs[i].name, fs[i].job_status))
    ELSE IF ~StepImage(cfg, cfg.steps[s])
    THEN Ctx(Settle(fs, i, "raised"), lg)
    ELSE Ctx([fs EXCEPT ![i].pc = "pulling"],
             log_status(lg, r, cfg.steps[s].name, "running"))

\* process_job from its first line to its first suspension
ProcessJob(r, p, fs, lg, i) ==
    LET job_name == fs[i].name
        cfg == get_job(p, job_name)
    IN  CASE cfg = NoJob ->
                Ctx(Settle(fs, i, "failed"), log_error(lg, r, "orchestrator", "job not found"))
          [] cfg.type = "timer" -> TimerExecute(r, cfg, fs, lg, i)
          [] cfg.type = "confirmation" ->
                IF ~bot
                THEN Ctx(Settle(fs, i, "failed"), log_error(lg, r, job_name, "no bot"))
                ELSE ConfirmationExecute(r, cfg, fs, lg, i)
          [] cfg.type = "job_group" -> GroupExecute(r, p, cfg, fs, lg, i)
          [] OTHER ->
                IF cfg.steps = <<>>
                THEN Ctx(Settle(fs, i, "failed"), log_error(lg, r, "orchestrator", "no steps"))
                ELSE ContainerLoop(r, cfg, [fs EXCEPT ![i].step = 1],
                                   log_status(lg, r, job_name, "running"), i)

-----------------------------------------------------------------------------
(* worker/job_executors.py: JobGroupExecutor, awaiting and collecting *)

\* asyncio.wait with return_when=FIRST_COMPLETED: it returns once one task
\* is done
WaitReturns_FirstCompleted(fs, tasks) == \E k \in tasks : fs[k].pc = "done"

\* asyncio.wait(tasks, return_when=ALL_COMPLETED), without a timeout, returns
\* once every task is done: done holds all of them and pending is empty
WaitReturns(fs, tasks) == \A k \in tasks : fs[k].pc = "done"
WaitDone(tasks) == tasks
WaitPending(tasks) == {}

\* pending_task.cancel() for every task of `pending`
CancelTasks(fs, pending) ==
    [k \in DOMAIN fs |->
        IF k \in pending /\ fs[k].pc # "done"
        THEN [fs[k] EXCEPT !.cancel_requested = TRUE] ELSE fs[k]]

\* the iteration orders of the set `done`
Orders(S) ==
    {o \in [1..Cardinality(S) -> S] : \A a, b \in DOMAIN o : o[a] = o[b] => a = b}

\* CollectOne with the `if is_necessary` tests dropped: any failed child
\* fails the group
CollectOne_AnyFailureFails(r, acc, k, pending) ==
    LET t == acc.fs[k] IN
    CASE t.outcome = "success" ->
            [acc EXCEPT !.completed = @ + 1]
      [] t.outcome = "raised" ->
            [acc EXCEPT !.failed = @ + 1, !.status = "failed",
                        !.fs = CancelTasks(@, pending),
                        !.lg = log_error(@, r, t.name, "exec error")]
      [] OTHER ->
            [acc EXCEPT !.failed = @ + 1, !.status = "failed",
                        !.fs = CancelTasks(@, pending)]

\* CollectOne with the exception branches leaving `failed` alone: a child
\* that raised or was cancelled is counted nowhere
CollectOne_RaisedUncounted(r, acc, k, pending) ==
    LET t == acc.fs[k] IN
    CASE t.outcome = "success" ->
            [acc EXCEPT !.completed = @ + 1]
      [] t.outcome = "CancelledError" ->
            [acc EXCEPT !.status = IF t.is_necessary THEN "failed" ELSE @]
      [] t.outcome = "raised" ->
            [acc EXCEPT !.status = IF t.is_necessary THEN "failed" ELSE @,
                        !.fs = IF t.is_necessary THEN CancelTasks(@, pending) ELSE @,
                        !.lg = log_error(@, r, t.name, "exec error")]
      [] OTHER ->
            [acc EXCEPT !.failed = @ + 1,
                        !.status = IF t.is_necessary THEN "failed" ELSE @,
                        !.fs = IF t.is_necessary THEN CancelTasks(@, pending) ELSE @]

\* one pass of `for task in done`: acc carries completed, failed, status,
\* the frames and the log
CollectOne(r, acc, k, pending) ==
    LET t == acc.fs[k] IN
    CASE t.outcome = "success" ->
            [acc EXCEPT !.completed = @ + 1]
      [] t.outcome = "CancelledError" ->
            [acc EXCEPT !.failed = @ + 1,
                        !.status = IF t.is_necessary THEN "failed" ELSE @]
      [] t.outcome = "raised" ->
            [acc EXCEPT !.failed = @ + 1,
                        !.status = IF t.is_necessary THEN "failed" ELSE @,
                        !.fs = IF t.is_necessary THEN CancelTasks(@, pending) ELSE @,
                        !.lg = log_error(@, r, t.name, "exec error")]
      [] OTHER ->
            [acc EXCEPT !.failed = @ + 1,
                        !.status = IF t.is_necessary THEN "failed" ELSE @,
                        !.fs = IF t.is_necessary THEN CancelTasks(@, pending) ELSE @]

RECURSIVE CollectAll(_, _, _, _)
CollectAll(r, acc, order, pending) ==
    IF order = <<>> THEN acc
    ELSE CollectAll(r, CollectOne(r, acc, Head(order), pending), Tail(order), pending)

\* JobGroupExecutor.execute from the return of asyncio.wait to its return
GroupCollect(r, fs, lg, i, order) ==
    LET tasks == Children(fs, i)
        acc == CollectAll(r, [completed |-> 0, failed |-> 0, status |-> "success",
                              fs |-> fs, lg |-> lg],
                          order, WaitPending(tasks))
    IN  Ctx(Settle([acc.fs EXCEPT ![i].completed = acc.completed,
                                  ![i].failed = acc.failed],
                   i, acc.status),
            log_status(acc.lg, r, fs[i].name, acc.status))

-----------------------------------------------------------------------------
(* bot/orchestrator.py and worker/job_processor.py: the driver of a run *)

NoResult == [status |-> "None", jobs_completed |-> 0, jobs_failed |-> 0]

Terminal == {"success", "failed", "cancelled"}

RunIds == DOMAIN running_jobs

HasCoords(r) ==
    running_jobs[r].chat_id # NoId /\ running_jobs[r].message_id # NoId /\ bot

\* PipelineOrchestrator.get_job_status returns None
NoInfo == [job_id |-> NoId, pipeline_name |-> "None", status |-> "None",
           result |-> NoResult, error |-> FALSE]

\* PipelineOrchestrator.get_job_status over the registry `jobs`
orchestrator_get_job_status(jobs, job_id) ==
    IF job_id \notin DOMAIN jobs THEN NoInfo
    ELSE [job_id |-> job_id, pipeline_name |-> jobs[job_id].pipeline_name,
          status |-> jobs[job_id].status, result |-> jobs[job_id].result,
          error |-> jobs[job_id].error]

\* a run whose status message nobody has edited and that has no pusher task
NoUpdates == [pusher |-> "none", shown |-> "None", pusher_final |-> 0,
              driver_final |-> 0]

\* the call of process_job for the top-level job at index i of list_jobs
StartTopJob(r, p, fs, lg, i) ==
    ProcessJob(r, p, Append(fs, NewFrame(list_jobs(p)[i], 0, FALSE, FALSE)), lg, Len(fs) + 1)

\* FinishRun with the finished run dropped from the registry
FinishRun_Evict(r, d, result, lg) ==
    /\ running_jobs' = [q \in DOMAIN running_jobs \ {r} |-> running_jobs[q]]
    /\ log' = log_status(lg, r, "orchestrator", result.status)
    /\ driver' = [driver EXCEPT ![r] = [d EXCEPT !.pc = IF HasCoords(r) THEN "notify" ELSE "done"]]

\* _execute_pipeline after process_pipeline has returned `result`
FinishRun(r, d, result, lg) ==
    /\ running_jobs' = [running_jobs EXCEPT ![r].status = result.status,
                                            ![r].finished = TRUE,
                                            ![r].result = result]
    /\ log' = log_status(lg, r, "orchestrator", result.status)
    /\ driver' = [driver EXCEPT ![r] = [d EXCEPT !.pc = IF HasCoords(r) THEN "notify" ELSE "done"]]

\* an except branch that records the failure in the registry only
FailRun_Silent(r, d, lg) ==
    /\ running_jobs' = [running_jobs EXCEPT ![r].status = "failed", ![r].error = TRUE]
    /\ log' = lg
    /\ driver' = [driver EXCEPT ![r] = [d EXCEPT !.pc = "done"]]

\* the except branch of _execute_pipeline
FailRun(r, d, lg) ==
    /\ running_jobs' = [running_jobs EXCEPT ![r].status = "failed", ![r].error = TRUE]
    /\ log' = log_error(lg, r, "orchestrator", "exec error")
    /\ driver' = [driver EXCEPT ![r] = [d EXCEPT !.pc = "done"]]

\* shared/pipeline_storage.py: the two sidecar files and their tables
FileNames == {"pipelines.json", "subscriptions.json"}

PipelineFiles == {"a.yaml", "b.yaml"}

EmptyTable == <<>>

NoSave == [file |-> "None", op |-> "None", before |-> EmptyTable, data |-> EmptyTable,
           found |-> {}]

\* _load_pipelines / _load_subscriptions: {} when json.load fails
load(f) == IF files[f].written = "complete" THEN files[f].data ELSE EmptyTable

\* dict.update
update(current, other) ==
    [k \in DOMAIN current \cup DOMAIN other |->
        IF k \in DOMAIN other THEN other[k] ELSE current[k]]

\* a table with key k set to v
put(table, k, v) == update(table, [x \in {k} |-> v])

\* a table without key k
pop(table, k) == [x \in DOMAIN table \ {k} |-> table[x]]

\* update_subscription_job over a table in which every chat is subscribed
\* to every pipeline it is asked about: the entry is created when missing
attach_job_Creates(subscriptions, chat_id, pipeline_name, job_id) ==
    put(subscriptions, chat_id,
        put(IF chat_id \in DOMAIN subscriptions THEN subscriptions[chat_id]
            ELSE EmptyTable,
            pipeline_name,
            IF chat_id \in DOMAIN subscriptions
               /\ pipeline_name \in DOMAIN subscriptions[chat_id]
            THEN [subscriptions[chat_id][pipeline_name] EXCEPT !.job_id = job_id]
            ELSE [message_id |-> NoId, job_id |-> job_id]))

\* the subscriptions table update_subscription_job leaves: job_id is set
\* in the entry of (chat, pipeline) when that entry exists
attach_job(subscriptions, chat_id, pipeline_name, job_id) ==
    IF chat_id \in DOMAIN subscriptions /\ pipeline_name \in DOMAIN subscriptions[chat_id]
    THEN [subscriptions EXCEPT ![chat_id][pipeline_name].job_id = job_id]
    ELSE subscriptions

\* `if chat_id: self.storage.update_subscription_job(...)` of run_pipeline:
\* a synchronous call, the file is complete again when it returns; the file
\* is not written when the chat is not subscribed to the pipeline
storage_update_subscription_job(chat_id, pipeline_name, job_id) ==
    LET subscriptions == load("subscriptions.json")
        data == attach_job(subscriptions, chat_id, pipeline_name, job_id)
    IN  IF chat_id # NoId /\ data # subscriptions
        THEN files' = [files EXCEPT !["subscriptions.json"] =
                         [written |-> "complete", data |-> data]]
        ELSE UNCHANGED files

\* PipelineOrchestrator.run_pipeline; fetched = FALSE when get_pipeline_yaml
\* or YAMLParser.parse raises
run_pipeline(pipeline_name, chat_id, message_id, fetched) ==
    /\ LET job_id == job_counter + 1 IN
        /\ job_counter' = job_id
        /\ IF fetched
           THEN storage_update_subscription_job(chat_id, pipeline_name, job_id)
           ELSE UNCHANGED files
        /\ IF fetched
           THEN /\ running_jobs' = running_jobs @@ (job_id :>
                        [pipeline_name |-> pipeline_name, chat_id |-> chat_id,
                         message_id |-> message_id, status |-> "pending",
                         started |-> FALSE, finished |-> FALSE,
                         result |-> NoResult, error |-> FALSE])
                /\ driver' = driver @@ (job_id :>
                        [pc |-> "start", i |-> 0, jobs_completed |-> 0,
                         jobs_failed |-> 0, top |-> 0])
                /\ frames' = frames @@ (job_id :> <<>>)
                /\ status_updates' = status_updates @@ (job_id :> NoUpdates)
                /\ UNCHANGED <<log, start_errors>>
           ELSE /\ log' = log_error(log, job_id, "orchestrator", "start error")
                /\ start_errors' = Append(start_errors, job_id)
                /\ UNCHANGED <<running_jobs, driver, frames, status_updates>>
    /\ UNCHANGED <<pending_confirmations, callbacks>>

\* _execute_pipeline from its start into process_pipeline, up to the first
\* suspension of the first top-level job; the status pusher is created on
\* the way when the run has a chat message to edit
execute_pipeline(r) ==
    /\ r \in RunIds
    /\ driver[r].pc = "start"
    /\ status_updates' = [status_updates EXCEPT ![r].pusher =
                            IF HasCoords(r) THEN "sleeping" ELSE "none"]
    /\ LET p == running_jobs[r].pipeline_name
           lg1 == log_status(log, r, "orchestrator", "running")
           jobs == list_jobs(p)
       IN  IF jobs = <<>>
           THEN /\ running_jobs' = [running_jobs EXCEPT
                        ![r].started = TRUE, ![r].status = "failed",
                        ![r].finished = TRUE,
                        ![r].result = [status |-> "failed", jobs_completed |-> 0,
                                       jobs_failed |-> 0]]
                /\ log' = log_status(log_error(lg1, r, "orchestrator", "no jobs"),
                                     r, "orchestrator", "failed")
                /\ driver' = [driver EXCEPT ![r].pc =
                                IF HasCoords(r) THEN "notify" ELSE "done"]
                /\ UNCHANGED frames
           ELSE LET cx == StartTopJob(r, p, frames[r], lg1, 1) IN
                /\ running_jobs' = [running_jobs EXCEPT ![r].started = TRUE,
                                                        ![r].status = "running"]
                /\ frames' = [frames EXCEPT ![r] = cx.fs]
                /\ log' = cx.lg
                /\ driver' = [driver EXCEPT ![r].pc = "jobs", ![r].i = 1,
                                            ![r].top = Len(frames[r]) + 1]
    /\ UNCHANGED <<job_counter, pending_confirmations, callbacks, start_errors>>

\* process_pipeline when the awaited process_job has returned or raised: the
\* body of `for job_name in jobs` after the await, then the next iteration
\* or the rest of _execute_pipeline
process_pipeline(r) ==
    /\ r \in RunIds
    /\ driver[r].pc = "jobs"
    /\ frames[r][driver[r].top].pc = "done"
    /\ LET p == running_jobs[r].pipeline_name
           d == driver[r]
           outcome == frames[r][d.top].outcome
       IN  CASE outcome = "raised" ->
                  /\ FailRun(r, d, log)
                  /\ UNCHANGED frames
             [] outcome = "success" /\ d.i < Len(list_jobs(p)) ->
                  LET cx == StartTopJob(r, p, frames[r], log, d.i + 1) IN
                  /\ frames' = [frames EXCEPT ![r] = cx.fs]
                  /\ log' = cx.lg
                  /\ driver' = [driver EXCEPT ![r].i = d.i + 1,
                                              ![r].jobs_completed = d.jobs_completed + 1,
                                              ![r].top = Len(frames[r]) + 1]
                  /\ UNCHANGED running_jobs
             [] outcome = "success" /\ d.i >= Len(list_jobs(p)) ->
                  /\ FinishRun(r, [d EXCEPT !.jobs_completed = @ + 1],
                               [status |-> "success",
                                jobs_completed |-> d.jobs_completed + 1,
                                jobs_failed |-> d.jobs_failed], log)
                  /\ UNCHANGED frames
             [] OTHER ->
                  /\ FinishRun(r, [d EXCEPT !.jobs_failed = @ + 1],
                               [status |-> "failed",
                                jobs_completed |-> d.jobs_completed,
                                jobs_failed |-> d.jobs_failed + 1], log)
                  /\ UNCHANGED frames
    /\ UNCHANGED <<status_updates, job_counter, pending_confirmations, callbacks, start_errors>>

\* the final chat update of _execute_pipeline: the status message edit and
\* bot.send_message.  edited = FALSE when edit_message_text raises: the
\* message keeps its text and _update_status_message swallows the error.
\* sent = FALSE when send_message raises: its error reaches the except
\* branch.
notify(r, edited, sent) ==
    /\ r \in RunIds
    /\ driver[r].pc = "notify"
    /\ status_updates' = [status_updates EXCEPT
            ![r].shown = IF edited
                         THEN orchestrator_get_job_status(running_jobs, r).status
                         ELSE @,
            ![r].driver_final = @ + 1]
    /\ IF sent
       THEN /\ driver' = [driver EXCEPT ![r].pc = "done"]
            /\ UNCHANGED <<running_jobs, log>>
       ELSE FailRun(r, driver[r], log)
    /\ UNCHANGED <<job_counter, frames, pending_confirmations, callbacks, start_errors>>

\* _periodic_status_update with "failed" missing from the statuses that end
\* the loop
pusher_wake_FailedNotTerminal(r) ==
    /\ r \in DOMAIN status_updates
    /\ status_updates[r].pusher = "sleeping"
    /\ LET status_info == orchestrator_get_job_status(running_jobs, r) IN
        status_updates' = [status_updates EXCEPT ![r] =
            CASE status_info = NoInfo -> [@ EXCEPT !.pusher = "done"]
              [] status_info.status \in Terminal \ {"failed"} ->
                    [@ EXCEPT !.pusher = "done", !.shown = status_info.status,
                              !.pusher_final = @ + 1]
              [] OTHER -> [@ EXCEPT !.shown = status_info.status]]
    /\ UNCHANGED <<job_counter, running_jobs, driver, frames, log,
                   pending_confirmations, callbacks, start_errors, shutdown>>

\* one turn of the loop of _periodic_status_update, from the return of
\* asyncio.sleep(5) to the next sleep or to the break
pusher_wake(r) ==
    /\ r \in DOMAIN status_updates
    /\ status_updates[r].pusher = "sleeping"
    /\ LET status_info == orchestrator_get_job_status(running_jobs, r) IN
        status_updates' = [status_updates EXCEPT ![r] =
            CASE status_info = NoInfo -> [@ EXCEPT !.pusher = "done"]
              [] status_info.status \in Terminal ->
                    [@ EXCEPT !.pusher = "done", !.shown = status_info.status,
                              !.pusher_final = @ + 1]
              [] OTHER -> [@ EXCEPT !.shown = status_info.status]]
    /\ UNCHANGED <<job_counter, running_jobs, driver, frames, log,
                   pending_confirmations, callbacks, start_errors, shutdown>>

-----------------------------------------------------------------------------
(* Tasks of group children and the suspension points of the executors *)

\* combined output a container can produce, as the lines of logs.split('\n');
\* an output that ends in a newline
Outputs == {<<"out", "">>}

\* a child task created by JobGroupExecutor.execute gets to run
task_start(r, i) ==
    /\ r \in RunIds
    /\ i \in DOMAIN frames[r]
    /\ frames[r][i].pc = "created"
    /\ LET p == running_jobs[r].pipeline_name
           cx == IF frames[r][i].direct
                 THEN GroupExecute(r, p, get_job(p, frames[r][i].name), frames[r], log, i)
                 ELSE ProcessJob(r, p, frames[r], log, i)
       IN  /\ frames' = [frames EXCEPT ![r] = cx.fs]
           /\ log' = cx.lg
    /\ UNCHANGED <<status_updates, job_counter, running_jobs, driver, pending_confirmations,
                   callbacks, start_errors>>

\* TimerJobExecutor.execute after asyncio.sleep has returned
timer_elapsed(r, i) ==
    /\ r \in RunIds
    /\ i \in DOMAIN frames[r]
    /\ frames[r][i].pc = "sleeping"
    /\ frames' = [frames EXCEPT ![r] = Settle(frames[r], i, "success")]
    /\ log' = log_status(log, r, frames[r][i].name, "success")
    /\ UNCHANGED <<status_updates, job_counter, running_jobs, driver, pending_confirmations,
                   callbacks, start_errors>>

\* process_job after DockerExecutor.pull_image has returned image_available
pull_image(r, i, image_available) ==
    /\ r \in RunIds
    /\ i \in DOMAIN frames[r]
    /\ frames[r][i].pc = "pulling"
    /\ LET p == running_jobs[r].pipeline_name
           f == frames[r][i]
           cfg == get_job(p, f.name)
           step_name == cfg.steps[f.step].name
           fs1 == [frames[r] EXCEPT ![i].pulls = Append(@, <<f.step, image_available>>)]
       IN  IF ~image_available
           THEN LET cx == ContainerLoop(r, cfg,
                            [fs1 EXCEPT ![i].steps_failed = @ + 1,
                                        ![i].job_status = "failed",
                                        ![i].step = @ + 1],
                            log_error(log, r, step_name, "image unavailable"), i)
                IN  /\ frames' = [frames EXCEPT ![r] = cx.fs]
                    /\ log' = cx.lg
           ELSE /\ frames' = [frames EXCEPT ![r] = [fs1 EXCEPT ![i].pc = "executing"]]
                /\ UNCHANGED log
    /\ UNCHANGED <<status_updates, job_counter, running_jobs, driver, pending_confirmations,
                   callbacks, start_errors>>

\* execute_step with the `break` after a failed step missing: the loop goes
\* on to the next step
execute_step_NoBreak(r, i, exit_code, logs) ==
    /\ r \in RunIds
    /\ i \in DOMAIN frames[r]
    /\ frames[r][i].pc = "executing"
    /\ LET p == running_jobs[r].pipeline_name
           f == frames[r][i]
           cfg == get_job(p, f.name)
           step_name == cfg.steps[f.step].name
           fs1 == [frames[r] EXCEPT ![i].execs = Append(@, <<f.step, exit_code>>)]
           lg1 == log_step_completion(
                    IF logs # <<>> THEN log_output(log, r, step_name, logs) ELSE log,
                    r, step_name, exit_code)
           cx == IF exit_code = 0
                 THEN ContainerLoop(r, cfg,
                        [fs1 EXCEPT ![i].steps_completed = @ + 1, ![i].step = @ + 1],
                        lg1, i)
                 ELSE ContainerLoop(r, cfg,
                        [fs1 EXCEPT ![i].steps_failed = @ + 1,
                                    ![i].job_status = "failed", ![i].step = @ + 1],
                        log_error(lg1, r, step_name, "step failed"), i)
       IN  /\ frames' = [frames EXCEPT ![r] = cx.fs]
           /\ log' = cx.lg
    /\ UNCHANGED <<status_updates, job_counter, running_jobs, driver, pending_confirmations,
                   callbacks, start_errors>>

\* execute_step with log_step_completion called before log_output: the
\* step's completion record precedes its output records
execute_step_CompletionFirst(r, i, exit_code, logs) ==
    /\ r \in RunIds
    /\ i \in DOMAIN frames[r]
    /\ frames[r][i].pc = "executing"
    /\ LET p == running_jobs[r].pipeline_name
           f == frames[r][i]
           cfg == get_job(p, f.name)
           step_name == cfg.steps[f.step].name
           fs1 == [frames[r] EXCEPT ![i].execs = Append(@, <<f.step, exit_code>>)]
           lg0 == log_step_completion(log, r, step_name, exit_code)
           lg1 == IF logs # <<>> THEN log_output(lg0, r, step_name, logs) ELSE lg0
           cx == IF exit_code = 0
                 THEN ContainerLoop(r, cfg,
                        [fs1 EXCEPT ![i].steps_completed = @ + 1, ![i].step = @ + 1],
                        lg1, i)
                 ELSE Ctx(Settle([fs1 EXCEPT ![i].steps_failed = @ + 1,
                                             ![i].job_status = "failed"],
                                 i, "failed"),
                          log_status(log_error(lg1, r, step_name, "step failed"),
                                     r, f.name, "failed"))
       IN  /\ frames' = [frames EXCEPT ![r] = cx.fs]
           /\ log' = cx.lg
    /\ UNCHANGED <<status_updates, job_counter, running_jobs, driver, pending_confirmations,
                   callbacks, start_errors>>

\* process_job after DockerExecutor.execute_step has returned (exit_code, logs)
execute_step(r, i, exit_code, logs) ==
    /\ r \in RunIds
    /\ i \in DOMAIN frames[r]
    /\ frames[r][i].pc = "executing"
    /\ LET p == running_jobs[r].pipeline_name
           f == frames[r][i]
           cfg == get_job(p, f.name)
           step_name == cfg.steps[f.step].name
           fs1 == [frames[r] EXCEPT ![i].execs = Append(@, <<f.step, exit_code>>)]
           lg1 == log_step_completion(
                    IF logs # <<>> THEN log_output(log, r, step_name, logs) ELSE log,
                    r, step_name, exit_code)
           cx == IF exit_code = 0
                 THEN ContainerLoop(r, cfg,
                        [fs1 EXCEPT ![i].steps_completed = @ + 1, ![i].step = @ + 1],
                        lg1, i)
                 ELSE Ctx(Settle([fs1 EXCEPT ![i].steps_failed = @ + 1,
                                             ![i].job_status = "failed"],
                                 i, "failed"),
                          log_status(log_error(lg1, r, step_name, "step failed"),
                                     r, f.name, "failed"))
       IN  /\ frames' = [frames EXCEPT ![r] = cx.fs]
           /\ log' = cx.lg
    /\ UNCHANGED <<status_updates, job_counter, running_jobs, driver, pending_confirmations,
                   callbacks, start_errors>>

\* JobGroupExecutor.execute resumes from asyncio.wait; order is the order in
\* which `for task in done` visits the set
group_collect(r, i, order) ==
    /\ r \in RunIds
    /\ i \in DOMAIN frames[r]
    /\ frames[r][i].pc = "waiting"
    /\ WaitReturns(frames[r], Children(frames[r], i))
    /\ order \in Orders(WaitDone(Children(frames[r], i)))
    /\ LET cx == GroupCollect(r, frames[r], log, i, order) IN
        /\ frames' = [frames EXCEPT ![r] = cx.fs]
        /\ log' = cx.lg
    /\ UNCHANGED <<status_updates, job_counter, running_jobs, driver, pending_confirmations,
                   callbacks, start_errors>>

-----------------------------------------------------------------------------
(* worker/job_executors.py: ConfirmationJobExecutor.handle_callback *)

Key(job_id, job_name) == <<job_id, job_name>>

\* the confirmation jobs of run job_id that process_job has dispatched: the
\* jobs whose buttons a user can press
ConfirmationNames(job_id) ==
    {frames[job_id][i].name : i \in {k \in DOMAIN frames[job_id] :
        /\ ~frames[job_id][k].direct
        /\ frames[job_id][k].pc # "created"
        /\ get_job(running_jobs[job_id].pipeline_name,
                   frames[job_id][k].name).type = "confirmation"}}

\* handle_callback that records the decision without looking the key up
handle_callback_Registers(action, job_id, job_name) ==
    /\ Len(callbacks) < MaxCallbacks
    /\ LET key == Key(job_id, job_name) IN
        /\ pending_confirmations' =
              [k \in DOMAIN pending_confirmations \cup {key} |->
                  IF k = key
                  THEN [confirmed |-> IF action = "confirm" THEN "True" ELSE "False",
                        event |-> TRUE]
                  ELSE pending_confirmations[k]]
        /\ callbacks' = Append(callbacks,
              [action |-> action, job_id |-> job_id, job_name |-> job_name,
               result |-> action])
    /\ UNCHANGED <<status_updates, job_counter, running_jobs, driver, frames, log,
                   start_errors>>

\* a press of the button <action>_<job_id>_<job_name>
handle_callback(action, job_id, job_name) ==
    /\ Len(callbacks) < MaxCallbacks
    /\ LET key == Key(job_id, job_name)
           found == key \in DOMAIN pending_confirmations
       IN  /\ pending_confirmations' =
                 IF found
                 THEN [pending_confirmations EXCEPT
                          ![key].confirmed = IF action = "confirm" THEN "True" ELSE "False",
                          ![key].event = TRUE]
                 ELSE pending_confirmations
           /\ callbacks' = Append(callbacks,
                 [action |-> action, job_id |-> job_id, job_name |-> job_name,
                  result |-> IF found THEN action ELSE "None"])
    /\ UNCHANGED <<status_updates, job_counter, running_jobs, driver, frames, log, start_errors>>

-----------------------------------------------------------------------------
(* worker/docker_executor.py: the thread pool behind execute_step and      *)
(* pull_image.  loop.run_in_executor hands a call to the pool's queue; a   *)
(* worker thread takes the oldest queued call when fewer than max_workers  *)
(* threads are busy, runs it and returns its result to the awaiting task.  *)

\* ThreadPoolExecutor(max_workers=5)
max_workers == 5

\* number of run_in_executor calls explored by PoolSpec
MaxCalls == 6

PoolFunctions == {"_execute_step_sync", "_pull_image_sync"}

Busy(pl) == {k \in DOMAIN pl : pl[k].state = "running"}

Queued(pl) == {k \in DOMAIN pl : pl[k].state = "queued"}

\* execute_step / pull_image: loop.run_in_executor(self.executor, fn, ...)
run_in_executor(fn) ==
    /\ Len(pool) < MaxCalls
    /\ pool' = Append(pool, [fn |-> fn, state |-> "queued"])

\* a pool that starts a thread for every queued call
worker_take_Unbounded ==
    /\ Queued(pool) # {}
    /\ LET k == CHOOSE q \in Queued(pool) : \A o \in Queued(pool) : q <= o IN
        pool' = [pool EXCEPT ![k].state = "running"]

\* a free worker thread takes the oldest call of the queue
worker_take ==
    /\ Queued(pool) # {}
    /\ Cardinality(Busy(pool)) < max_workers
    /\ LET k == CHOOSE q \in Queued(pool) : \A o \in Queued(pool) : q <= o IN
        pool' = [pool EXCEPT ![k].state = "running"]

\* _execute_step_sync / _pull_image_sync returns: the worker is free again
worker_return(k) ==
    /\ k \in Busy(pool)
    /\ pool' = [pool EXCEPT ![k].state = "done"]

-----------------------------------------------------------------------------
(* worker/job_executors.py: the callback data of the confirmation buttons  *)
(* and its decoding by handle_callback.  A text is the sequence of its     *)
(* characters.                                                             *)

\* longest job name explored by ButtonSpec
MaxNameLen == 3

DigitChars == <<"0", "1", "2", "3", "4", "5", "6", "7", "8", "9">>

ActionText ==
    [confirm |-> <<"c", "o", "n", "f", "i", "r", "m">>,
     cancel |-> <<"c", "a", "n", "c", "e", "l">>]

\* run ids of one, two and three digits
ButtonJobIds == {1, 12, 305}

\* job names over a letter and the separator, the empty name included
ButtonJobNames == UNION {[1..n -> {"a", "_"}] : n \in 0..MaxNameLen}

\* str(job_id) inside an f-string
Str(n) == [i \in 1..Len(Digits(n)) |-> DigitChars[Digits(n)[i] + 1]]

\* f"{action}_{job_id}_{job_name}": the callback_data of a button
callback_data(action, job_id, job_name) ==
    ActionText[action] \o <<"_">> \o Str(job_id) \o <<"_">> \o job_name

\* confirmation_key = f"{job_id}_{job_name}"
confirmation_key(job_id, job_name) == Str(job_id) \o <<"_">> \o job_name

\* str.split(sep) without maxsplit
RECURSIVE split_All(_, _, _)
split_All(s, sep, maxsplit) ==
    LET hits == {i \in 1..Len(s) : s[i] = sep} IN
    IF hits = {} THEN <<s>>
    ELSE LET i == CHOOSE h \in hits : \A o \in hits : h <= o IN
         <<SubSeq(s, 1, i - 1)>> \o split_All(SubSeq(s, i + 1, Len(s)), sep, maxsplit)

\* str.split(sep, maxsplit)
RECURSIVE split(_, _, _)
split(s, sep, maxsplit) ==
    LET hits == {i \in 1..Len(s) : s[i] = sep} IN
    IF maxsplit = 0 \/ hits = {} THEN <<s>>
    ELSE LET i == CHOOSE h \in hits : \A o \in hits : h <= o IN
         <<SubSeq(s, 1, i - 1)>> \o split(SubSeq(s, i + 1, Len(s)), sep, maxsplit - 1)

\* int(text) accepts a text of decimal digits (a text a button can carry)
IsInt(text) == text # <<>> /\ \A i \in 1..Len(text) : \E d \in 1..10 : DigitChars[d] = text[i]

RECURSIVE int(_)
int(text) ==
    IF text = <<>> THEN 0
    ELSE 10 * int(SubSeq(text, 1, Len(text) - 1))
         + (CHOOSE d \in 0..9 : DigitChars[d + 1] = text[Len(text)])

\* handle_callback returns None
NoDecoded == [action |-> "None", job_id |-> NoId, job_name |-> <<>>, key |-> <<>>]

\* handle_callback up to the look-up of the key: the action, run id, job
\* name and key it takes from the callback data
decode_callback(data) ==
    LET parts == split(data, "_", 2)
        action == CASE IsPrefix(ActionText.confirm \o <<"_">>, data) -> "confirm"
                    [] IsPrefix(ActionText.cancel \o <<"_">>, data) -> "cancel"
                    [] OTHER -> "None"
    IN  IF action = "None" \/ Len(parts) # 3 THEN NoDecoded
        ELSE IF ~IsInt(parts[2])
        THEN [action |-> "ValueError", job_id |-> NoId, job_name |-> <<>>, key |-> <<>>]
        ELSE [action |-> action, job_id |-> int(parts[2]), job_name |-> parts[3],
              key |-> confirmation_key(int(parts[2]), parts[3])]

NoButton == [action |-> "None", job_id |-> NoId, job_name |-> <<>>, made |-> FALSE,
             callback_data |-> <<>>, key |-> <<>>, pressed |-> FALSE,
             decoded |-> NoDecoded]

\* ConfirmationJobExecutor.execute builds the keyboard and the key
make_button ==
    /\ button.action # "None"
    /\ ~button.made
    /\ button' = [button EXCEPT
            !.made = TRUE,
            !.callback_data = callback_data(button.action, button.job_id, button.job_name),
            !.key = confirmation_key(button.job_id, button.job_name)]

\* the user presses the button: handle_callback receives its callback data
press_button ==
    /\ button.made
    /\ ~button.pressed
    /\ button' = [button EXCEPT !.pressed = TRUE,
                                !.decoded = decode_callback(button.callback_data)]

-----------------------------------------------------------------------------
(* shared/pipeline_storage.py and discover_pipelines of bot/orchestrator.py *)
(* A mutation loads a sidecar file, changes the table and saves it with    *)
(* open(path, "w") and json.dump: the open truncates the file, the dump    *)
(* fills a buffer that reaches the disk in pieces or at the close.         *)

\* number of ERROR records discover_pipelines may add in StorageSpec
MaxDiscoverErrors == 1

\* _save_pipelines / _save_subscriptions up to the return of open(path, "w")
save_open(f, op, before, data, found) ==
    /\ files' = [files EXCEPT ![f] = [written |-> "empty", data |-> EmptyTable]]
    /\ saving' = [file |-> f, op |-> op, before |-> before, data |-> data,
                  found |-> found]

RECURSIVE log_errors(_, _)
log_errors(lg, n) ==
    IF n = 0 THEN lg ELSE log_errors(log_error(lg, 0, "orchestrator", "load error"), n - 1)

\* discover_pipelines with update_pipelines: `listed` is what list_pipelines
\* returned, `loadable` the manifests that were fetched and parsed
discover_pipelines(listed, loadable) ==
    /\ saving = NoSave
    /\ Len(log) + Cardinality(listed \ loadable) <= MaxDiscoverErrors
    /\ LET pipelines_info == [n \in loadable |-> [name |-> TRUE, auto_run |-> FALSE]]
           current == load("pipelines.json")
       IN  save_open("pipelines.json", "discover_pipelines", current,
                     update(current, pipelines_info), loadable)
    /\ log' = log_errors(log, Cardinality(listed \ loadable))

\* PipelineStorage.set_auto_run
set_auto_run(pipeline_name, auto_run) ==
    /\ saving = NoSave
    /\ LET pipelines == load("pipelines.json")
           entry == IF pipeline_name \in DOMAIN pipelines THEN pipelines[pipeline_name]
                    ELSE [name |-> FALSE, auto_run |-> FALSE]
       IN  save_open("pipelines.json", "set_auto_run", pipelines,
                     put(pipelines, pipeline_name, [entry EXCEPT !.auto_run = auto_run]),
                     {})
    /\ UNCHANGED log

\* PipelineStorage.subscribe_chat
subscribe_chat(chat_id, pipeline_name, message_id) ==
    /\ saving = NoSave
    /\ LET subscriptions == load("subscriptions.json")
           chat == IF chat_id \in DOMAIN subscriptions THEN subscriptions[chat_id]
                   ELSE EmptyTable
       IN  save_open("subscriptions.json", "subscribe_chat", subscriptions,
                     put(subscriptions, chat_id,
                         put(chat, pipeline_name,
                             [message_id |-> message_id, job_id |-> NoId])),
                     {})
    /\ UNCHANGED log

\* PipelineStorage.unsubscribe_chat
unsubscribe_chat(chat_id, pipeline_name) ==
    /\ saving = NoSave
    /\ LET subscriptions == load("subscriptions.json") IN
        save_open("subscriptions.json", "unsubscribe_chat", subscriptions,
                  IF chat_id \notin DOMAIN subscriptions THEN subscriptions
                  ELSE IF pop(subscriptions[chat_id], pipeline_name) = EmptyTable
                  THEN pop(subscriptions, chat_id)
                  ELSE put(subscriptions, chat_id,
                           pop(subscriptions[chat_id], pipeline_name)),
                  {})
    /\ UNCHANGED log

\* PipelineStorage.update_subscription_job: saves only when the chat is
\* subscribed to the pipeline
update_subscription_job(chat_id, pipeline_name, job_id) ==
    /\ saving = NoSave
    /\ LET subscriptions == load("subscriptions.json") IN
        /\ chat_id \in DOMAIN subscriptions
        /\ pipeline_name \in DOMAIN subscriptions[chat_id]
        /\ save_open("subscriptions.json", "update_subscription_job", subscriptions,
                     [subscriptions EXCEPT ![chat_id][pipeline_name].job_id = job_id],
                     {})
    /\ UNCHANGED log

\* json.dump: a piece of the document reaches the disk before the close
dump_flush ==
    /\ saving # NoSave
    /\ files[saving.file].written = "empty"
    /\ files' = [files EXCEPT ![saving.file].written = "partial"]
    /\ UNCHANGED <<saving, log>>

\* the end of the `with` block, the whole document is on disk
save_close ==
    /\ saving # NoSave
    /\ files' = [files EXCEPT ![saving.file] = [written |-> "complete",
                                                data |-> saving.data]]
    /\ saving' = NoSave
    /\ UNCHANGED log

\* the process dies inside a save; the next process finds the file as it is
crash ==
    /\ saving # NoSave
    /\ saving' = NoSave
    /\ UNCHANGED <<files, log>>

-----------------------------------------------------------------------------

Init ==
    /\ job_counter = 0
    /\ running_jobs = <<>>
    /\ driver = <<>>
    /\ frames = <<>>
    /\ log = <<>>
    /\ pending_confirmations = <<>>
    /\ callbacks = <<>>
    /\ start_errors = <<>>
    /\ writers = <<>>
    /\ yaml_content = NoYaml
    /\ parsed = "None"
    /\ shutdown = [closing |-> FALSE, suspended |-> {}]
    /\ status_updates = <<>>
    /\ pool = <<>>
    /\ button = NoButton
    /\ files = [f \in FileNames |-> [written |-> "complete", data |-> EmptyTable]]
    /\ saving = NoSave

\* The engine: a call of run_pipeline is explored while fewer than MaxRuns
\* calls were made and no earlier run is still in flight.
\* The final status-message edit succeeds here; ChatSpec explores the edit
\* that raises.
Next ==
    \/ /\ job_counter < MaxRuns
       /\ \A r \in RunIds : driver[r].pc = "done"
       /\ \E p \in ManifestNames, c \in ChatIds, m \in MessageIds, fetched \in BOOLEAN :
             run_pipeline(p, c, m, fetched)
       /\ UNCHANGED start_frame
    \/ /\ \E r \in RunIds : execute_pipeline(r)
       /\ UNCHANGED other_vars
    \/ /\ \E r \in RunIds : process_pipeline(r)
       /\ UNCHANGED other_vars
    \/ /\ \E r \in RunIds, sent \in BOOLEAN : notify(r, TRUE, sent)
       /\ UNCHANGED other_vars
    \/ /\ \E r \in RunIds : \E i \in 1..Len(frames[r]) : task_start(r, i)
       /\ UNCHANGED other_vars
    \/ /\ \E r \in RunIds : \E i \in 1..Len(frames[r]) : timer_elapsed(r, i)
       /\ UNCHANGED other_vars
    \/ /\ \E r \in RunIds : \E i \in 1..Len(frames[r]), a \in BOOLEAN : pull_image(r, i, a)
       /\ UNCHANGED other_vars
    \/ /\ \E r \in RunIds : \E i \in 1..Len(frames[r]), e \in ExitCodes, o \in Outputs :
             execute_step(r, i, e, o)
       /\ UNCHANGED other_vars
    \/ /\ \E r \in RunIds : \E i \in 1..Len(frames[r]) :
             \E order \in Orders(Children(frames[r], i)) : group_collect(r, i, order)
       /\ UNCHANGED other_vars
    \/ /\ \E r \in RunIds : \E n \in ConfirmationNames(r), a \in {"confirm", "cancel"} :
             handle_callback(a, r, n)
       /\ UNCHANGED other_vars

Spec == Init /\ [][Next]_vars

-----------------------------------------------------------------------------
(* The engine while the process stops: asyncio.run(main()) of bot/main.py  *)
(* cancels every task that is not done and runs the loop until the tasks   *)
(* have settled.  A run's driver task awaits its top-level job inline, so  *)
(* the frame with parent 0 that is not done is the driver task's own       *)
(* suspension point.                                                        *)

\* the positions at which an executor is suspended in an await
Suspended == {"sleeping", "pulling", "executing", "waiting"}

\* asyncio.run's cancellation of all tasks: cancel() on every driver task
\* and every child task that is not done
cancel_all_tasks ==
    /\ ~shutdown.closing
    /\ \E r \in RunIds : driver[r].pc # "done"
    /\ frames' = [r \in DOMAIN frames |->
                    [i \in DOMAIN frames[r] |->
                        IF frames[r][i].pc # "done"
                        THEN [frames[r][i] EXCEPT !.cancel_requested = TRUE]
                        ELSE frames[r][i]]]
    /\ shutdown' = [closing |-> TRUE,
                    suspended |-> {<<r, i>> \in UNION {{r} \X DOMAIN frames[r] : r \in RunIds} :
                                     frames[r][i].pc \in Suspended}]
    /\ UNCHANGED <<status_updates, service_vars, job_counter, running_jobs, driver, log, pending_confirmations,
                   callbacks, start_errors, writers, yaml_content, parsed>>

\* a cancelled task is resumed: CancelledError is raised at its await.  No
\* executor and no caller up to the task's coroutine catches it (the
\* handlers are `except Exception`), so the task ends cancelled; when the
\* frame is the driver's top-level job, the driver task ends with it.
task_cancelled(r, i) ==
    /\ shutdown.closing
    /\ r \in RunIds
    /\ i \in DOMAIN frames[r]
    /\ frames[r][i].pc # "done"
    /\ frames[r][i].cancel_requested
    /\ frames' = [frames EXCEPT ![r] = Settle(frames[r], i, "CancelledError")]
    /\ driver' = IF frames[r][i].parent = 0
                 THEN [driver EXCEPT ![r].pc = "done"] ELSE driver
    /\ UNCHANGED <<status_updates, service_vars, job_counter, running_jobs, log, pending_confirmations,
                   callbacks, start_errors, writers, yaml_content, parsed, shutdown>>

\* a cancelled driver task that awaits no job (not started yet, between two
\* jobs, or sending the final message) ends with CancelledError
driver_cancelled(r) ==
    /\ shutdown.closing
    /\ r \in RunIds
    /\ driver[r].pc # "done"
    /\ driver[r].pc = "jobs" => frames[r][driver[r].top].pc = "done"
    /\ driver' = [driver EXCEPT ![r].pc = "done"]
    /\ UNCHANGED <<status_updates, service_vars, job_counter, running_jobs, frames, log, pending_confirmations,
                   callbacks, start_errors, writers, yaml_content, parsed, shutdown>>

NextShutdown ==
    \/ /\ ~shutdown.closing
       /\ Next
    \/ cancel_all_tasks
    \/ \E r \in RunIds : \E i \in 1..Len(frames[r]) : task_cancelled(r, i)
    \/ \E r \in RunIds : driver_cancelled(r)

ShutdownSpec == Init /\ [][NextShutdown]_vars

-----------------------------------------------------------------------------
(* The logger on its own: tasks of several runs call Logger._write_line    *)
(* concurrently.  A call opens the file, then its write lands; between the *)
(* two any other call may open or write.                                   *)

\* run ids whose tasks write; 10 is the id of the tenth run_pipeline call
LoggedJobIds == {1, 2, 10}

\* the lines the tasks write (status of the run, output of a step)
LoggedLines ==
    {format_log_line(j, "orchestrator", "STATUS", st, NoExit) :
        j \in LoggedJobIds, st \in {"running", "success"}}
    \cup {format_log_line(j, "build", "LOG", "out", NoExit) : j \in LoggedJobIds}

\* _write_line with the write placed at the end of file seen when the file
\* was opened (a file opened 'r+' and positioned at its end): lines written
\* in between are overwritten
write_line_close_AtOpenOffset(w) ==
    /\ w \in DOMAIN writers
    /\ writers[w].pc = "open"
    /\ log' = SubSeq(log, 1, writers[w].pos) \o <<writers[w].line>>
              \o SubSeq(log, writers[w].pos + 2, Len(log))
    /\ writers' = [writers EXCEPT ![w].pc = "closed"]
    /\ UNCHANGED <<service_vars, engine_vars, yaml_content, parsed>>

\* Logger._write_line up to aiofiles.open(mode='a') returning the file
write_line_open(line) ==
    /\ writers' = Append(writers, [line |-> line, pc |-> "open", pos |-> Len(log)])
    /\ UNCHANGED <<service_vars, engine_vars, log, yaml_content, parsed>>

\* Logger._write_line from f.write(line + '\n') to the close of the file
write_line_close(w) ==
    /\ w \in DOMAIN writers
    /\ writers[w].pc = "open"
    /\ log' = write_line(log, writers[w].line)
    /\ writers' = [writers EXCEPT ![w].pc = "closed"]
    /\ UNCHANGED <<service_vars, engine_vars, yaml_content, parsed>>

NextLogger ==
    \/ /\ Len(writers) < MaxWrites
       /\ \E line \in LoggedLines : write_line_open(line)
    \/ \E w \in DOMAIN writers : write_line_close(w)

LoggerSpec == Init /\ [][NextLogger]_vars

-----------------------------------------------------------------------------
(* The run registry on its own: callers start runs one after another; the  *)
(* tasks run_pipeline creates have not been scheduled yet.                 *)

NextRegistry ==
    /\ job_counter < MaxStarts
    /\ \E p \in ManifestNames, c \in ChatIds, m \in MessageIds, fetched \in BOOLEAN :
          run_pipeline(p, c, m, fetched)
    /\ UNCHANGED start_frame

RegistrySpec == Init /\ [][NextRegistry]_vars

-----------------------------------------------------------------------------
(* shared/yaml_parser.py: YAMLParser.parse over the mappings yaml.safe_load *)
(* can return.  A job mapping is given by its type, the set `keys` of the   *)
(* keys it holds and the values of those keys; a step by its name and by    *)
(* whether it holds the keys image and run.                                 *)

RawStep(name, has_image, has_run) ==
    [name |-> name, has_image |-> has_image, has_run |-> has_run]

RawJob(type, keys, steps, jobs, job_groups) ==
    [type |-> type, keys |-> keys, image |-> "image" \in keys, steps |-> steps,
     duration |-> 1, jobs |-> jobs, job_groups |-> job_groups]

\* the job mappings a manifest can be written with; a, b are the names of
\* the manifest's jobs, ghost is a name the manifest does not define
RawJobs ==
    { RawJob("default", {"steps", "image"}, <<RawStep("s1", FALSE, TRUE)>>, <<>>, <<>>),
      RawJob("default", {"steps"},
             <<RawStep("s1", TRUE, TRUE), RawStep("s2", FALSE, TRUE)>>, <<>>, <<>>),
      RawJob("default", {"steps"}, <<RawStep("s1", TRUE, TRUE)>>, <<>>, <<>>),
      RawJob("default", {"steps"}, <<RawStep("s1", FALSE, TRUE)>>, <<>>, <<>>),
      RawJob("default", {"steps", "image"}, <<RawStep("s1", FALSE, FALSE)>>, <<>>, <<>>),
      RawJob("default", {"image"}, <<>>, <<>>, <<>>),
      RawJob("timer", {"type", "duration"}, <<>>, <<>>, <<>>),
      RawJob("timer", {"type"}, <<>>, <<>>, <<>>),
      RawJob("confirmation", {"type", "message"}, <<>>, <<>>, <<>>),
      RawJob("confirmation", {"type"}, <<>>, <<>>, <<>>),
      RawJob("job_group", {"type"}, <<>>, <<>>, <<>>) }
    \cup { RawJob("job_group", {"type", "jobs"}, <<>>, <<Ref(n, TRUE)>>, <<>>) :
             n \in {"a", "b", "ghost"} }
    \cup { RawJob("job_group", {"type", "job_groups"}, <<>>, <<>>, <<Ref(n, TRUE)>>) :
             n \in {"a", "b", "ghost"} }

\* the manifests handed to parse: a mapping with the key jobs, two jobs a
\* and b, and the key name present or not
YamlContents ==
    { [name |-> has_name, order |-> <<"a", "b">>,
       jobs |-> [j \in {"a", "b"} |-> IF j = "a" THEN ja ELSE jb]] :
         has_name \in BOOLEAN, ja \in RawJobs, jb \in RawJobs }

\* the body of `for job_name, job_config in jobs.items()` raises no error
JobValid(job_config) ==
    CASE job_config.type = "timer" -> "duration" \in job_config.keys
      [] job_config.type = "confirmation" -> "message" \in job_config.keys
      [] job_config.type = "job_group" ->
            "jobs" \in job_config.keys \/ "job_groups" \in job_config.keys
      [] OTHER ->
            /\ "steps" \in job_config.keys
            /\ "image" \notin job_config.keys =>
                  \E k \in DOMAIN job_config.steps : job_config.steps[k].has_image
            /\ \A k \in DOMAIN job_config.steps : job_config.steps[k].has_run

\* YAMLParser.parse: the PipelineConfig built from the mapping, or ValueError
parse(config) ==
    IF ~config.name THEN "ValueError"
    ELSE IF \E j \in DOMAIN config.jobs : ~JobValid(config.jobs[j]) THEN "ValueError"
    ELSE "PipelineConfig"

\* a caller hands yaml_content to YAMLParser.parse
parse_call ==
    /\ parsed = "None"
    /\ parsed' = parse(yaml_content)
    /\ UNCHANGED <<service_vars, engine_vars, log, writers, yaml_content>>

InitParser ==
    /\ yaml_content \in YamlContents
    /\ parsed = "None"
    /\ job_counter = 0
    /\ running_jobs = <<>>
    /\ driver = <<>>
    /\ frames = <<>>
    /\ log = <<>>
    /\ pending_confirmations = <<>>
    /\ callbacks = <<>>
    /\ start_errors = <<>>
    /\ writers = <<>>
    /\ shutdown = [closing |-> FALSE, suspended |-> {}]
    /\ status_updates = <<>>
    /\ pool = <<>>
    /\ button = NoButton
    /\ files = [f \in FileNames |-> [written |-> "complete", data |-> EmptyTable]]
    /\ saving = NoSave

NextParser == parse_call

ParserSpec == InitParser /\ [][NextParser]_vars

-----------------------------------------------------------------------------
(* The engine with the status pushers: a pusher wakes every five seconds;  *)
(* it reads the registry and edits the chat message, nothing else.  The    *)
(* loop runs every task that is ready, so a pusher whose sleep is over     *)
(* gets its turn.                                                          *)

\* manifests whose runs end in each way: every job succeeds or a step fails
\* (seq.yaml), a group fails (skip.yaml), the driver's except branch (ask.yaml)
PusherManifests == {"seq.yaml", "skip.yaml", "ask.yaml"}

\* the engine's actions without the button presses (handle_callback reads
\* and writes the table of pending confirmations only), and the pushers
NextPusher ==
    \/ /\ job_counter < MaxRuns
       /\ \A r \in RunIds : driver[r].pc = "done"
       /\ \E p \in PusherManifests, c \in ChatIds, m \in MessageIds, fetched \in BOOLEAN :
             run_pipeline(p, c, m, fetched)
       /\ UNCHANGED start_frame
    \/ /\ \E r \in RunIds : execute_pipeline(r)
       /\ UNCHANGED other_vars
    \/ /\ \E r \in RunIds : process_pipeline(r)
       /\ UNCHANGED other_vars
    \/ /\ \E r \in RunIds, edited \in BOOLEAN, sent \in BOOLEAN : notify(r, edited, sent)
       /\ UNCHANGED other_vars
    \/ /\ \E r \in RunIds : \E i \in 1..Len(frames[r]) : task_start(r, i)
       /\ UNCHANGED other_vars
    \/ /\ \E r \in RunIds : \E i \in 1..Len(frames[r]) : timer_elapsed(r, i)
       /\ UNCHANGED other_vars
    \/ /\ \E r \in RunIds : \E i \in 1..Len(frames[r]), a \in BOOLEAN : pull_image(r, i, a)
       /\ UNCHANGED other_vars
    \/ /\ \E r \in RunIds : \E i \in 1..Len(frames[r]), e \in ExitCodes, o \in Outputs :
             execute_step(r, i, e, o)
       /\ UNCHANGED other_vars
    \/ /\ \E r \in RunIds : \E i \in 1..Len(frames[r]) :
             \E order \in Orders(Children(frames[r], i)) : group_collect(r, i, order)
       /\ UNCHANGED other_vars
    \/ /\ \E r \in RunIds : pusher_wake(r)
       /\ UNCHANGED other_vars

PusherSpec == Init /\ [][NextPusher]_vars
              /\ \A r \in 1..MaxRuns : WF_status_updates(pusher_wake(r))

-----------------------------------------------------------------------------
(* The thread pool on its own: tasks of any run hand calls to the pool,    *)
(* the worker threads run them.  A worker thread that can take a call      *)
(* takes it, and a container or a pull that was started ends (a container  *)
(* is stopped after an hour at the latest).                                *)

NextPool ==
    \/ /\ \E fn \in PoolFunctions : run_in_executor(fn)
       /\ UNCHANGED <<engine_vars, log, writers, yaml_content, parsed, button, files, saving>>
    \/ /\ worker_take
       /\ UNCHANGED <<engine_vars, log, writers, yaml_content, parsed, button, files, saving>>
    \/ /\ \E k \in 1..Len(pool) : worker_return(k)
       /\ UNCHANGED <<engine_vars, log, writers, yaml_content, parsed, button, files, saving>>

PoolSpec == Init /\ [][NextPool]_vars
            /\ WF_pool(worker_take)
            /\ \A k \in 1..MaxCalls : WF_pool(worker_return(k))

-----------------------------------------------------------------------------
(* The callback data of a button: built for a run and a job, then decoded  *)

ButtonInputs ==
    {[NoButton EXCEPT !.action = a, !.job_id = j, !.job_name = n] :
        a \in DOMAIN ActionText, j \in ButtonJobIds, n \in ButtonJobNames}

InitButton ==
    /\ button \in ButtonInputs
    /\ job_counter = 0
    /\ running_jobs = <<>>
    /\ driver = <<>>
    /\ frames = <<>>
    /\ log = <<>>
    /\ pending_confirmations = <<>>
    /\ callbacks = <<>>
    /\ start_errors = <<>>
    /\ writers = <<>>
    /\ yaml_content = NoYaml
    /\ parsed = "None"
    /\ shutdown = [closing |-> FALSE, suspended |-> {}]
    /\ status_updates = <<>>
    /\ pool = <<>>
    /\ files = [f \in FileNames |-> [written |-> "complete", data |-> EmptyTable]]
    /\ saving = NoSave

NextButton ==
    \/ /\ make_button
       /\ UNCHANGED <<engine_vars, log, writers, yaml_content, parsed, pool, files, saving>>
    \/ /\ press_button
       /\ UNCHANGED <<engine_vars, log, writers, yaml_content, parsed, pool, files, saving>>

ButtonSpec == InitButton /\ [][NextButton]_vars

-----------------------------------------------------------------------------
(* The sidecar files: mutations one after the other (the methods of        *)
(* PipelineStorage do not await), each one possibly cut short by the end   *)
(* of the process.                                                         *)

NextStorage ==
    \/ /\ \E listed \in SUBSET PipelineFiles : \E loadable \in SUBSET listed :
             discover_pipelines(listed, loadable)
       /\ UNCHANGED <<engine_vars, writers, yaml_content, parsed, pool, button>>
    \/ /\ \E n \in PipelineFiles, a \in BOOLEAN : set_auto_run(n, a)
       /\ UNCHANGED <<engine_vars, writers, yaml_content, parsed, pool, button>>
    \/ /\ \E c \in ChatIds, n \in PipelineFiles, m \in MessageIds \ {NoId} :
             subscribe_chat(c, n, m)
       /\ UNCHANGED <<engine_vars, writers, yaml_content, parsed, pool, button>>
    \/ /\ \E c \in ChatIds, n \in PipelineFiles : unsubscribe_chat(c, n)
       /\ UNCHANGED <<engine_vars, writers, yaml_content, parsed, pool, button>>
    \/ /\ \E c \in ChatIds, n \in PipelineFiles : update_subscription_job(c, n, 1)
       /\ UNCHANGED <<engine_vars, writers, yaml_content, parsed, pool, button>>
    \/ /\ dump_flush
       /\ UNCHANGED <<engine_vars, writers, yaml_content, parsed, pool, button>>
    \/ /\ save_close
       /\ UNCHANGED <<engine_vars, writers, yaml_content, parsed, pool, button>>
    \/ /\ crash
       /\ UNCHANGED <<engine_vars, writers, yaml_content, parsed, pool, button>>

StorageSpec == Init /\ [][NextStorage]_vars

-----------------------------------------------------------------------------
(* Starts and subscriptions: the handlers of bot/handlers.py call           *)
(* run_pipeline, subscribe_chat and unsubscribe_chat from the one event     *)
(* loop thread.  The storage calls are synchronous, so no engine step runs  *)
(* while a save is in flight.                                               *)

\* starts explored in SubscriptionSpec
MaxAttachStarts == 2

\* the chats that subscribe, and the pipelines they subscribe to
SubscriberChats == {7, 8}
SubscribedPipelines == {"ask.yaml", "seq.yaml"}

\* the message a subscription is shown in
SubscriptionMessage == 6

NextSubscription ==
    \/ /\ job_counter < MaxAttachStarts
       /\ saving = NoSave
       /\ \E c \in SubscriberChats \cup {NoId}, fetched \in BOOLEAN :
             run_pipeline("ask.yaml", c, 5, fetched)
       /\ UNCHANGED start_frame
    \/ /\ saving = NoSave
       /\ \E r \in RunIds : execute_pipeline(r)
       /\ UNCHANGED other_vars
    \/ /\ saving = NoSave
       /\ \E r \in RunIds : process_pipeline(r)
       /\ UNCHANGED other_vars
    \/ /\ \E c \in SubscriberChats, n \in SubscribedPipelines :
             subscribe_chat(c, n, SubscriptionMessage)
       /\ UNCHANGED <<engine_vars, writers, yaml_content, parsed, pool, button>>
    \/ /\ \E c \in SubscriberChats, n \in SubscribedPipelines : unsubscribe_chat(c, n)
       /\ UNCHANGED <<engine_vars, writers, yaml_content, parsed, pool, button>>
    \/ /\ save_close
       /\ UNCHANGED <<engine_vars, writers, yaml_content, parsed, pool, button>>

SubscriptionSpec == Init /\ [][NextSubscription]_vars

-----------------------------------------------------------------------------
(* The engine under fair scheduling, over every manifest parse accepts.    *)
(* The event loop runs every task that is ready, and each container run    *)
(* and timer ends, so a step of the engine that stays possible is taken.   *)
(* A run of a cyclic manifest creates tasks without end; the tasks of a    *)
(* run are explored up to MaxTasks.                                        *)

\* tasks of one run explored in TerminationSpec
MaxTasks == 8

\* a step of a driver task or of a job task
EngineStep ==
    \/ /\ \E r \in RunIds : execute_pipeline(r)
       /\ UNCHANGED other_vars
    \/ /\ \E r \in RunIds : process_pipeline(r)
       /\ UNCHANGED other_vars
    \/ /\ \E r \in RunIds, edited \in BOOLEAN, sent \in BOOLEAN : notify(r, edited, sent)
       /\ UNCHANGED other_vars
    \/ /\ \E r \in RunIds : \E i \in 1..Len(frames[r]) :
             Len(frames[r]) < MaxTasks /\ task_start(r, i)
       /\ UNCHANGED other_vars
    \/ /\ \E r \in RunIds : \E i \in 1..Len(frames[r]) : timer_elapsed(r, i)
       /\ UNCHANGED other_vars
    \/ /\ \E r \in RunIds : \E i \in 1..Len(frames[r]), a \in BOOLEAN : pull_image(r, i, a)
       /\ UNCHANGED other_vars
    \/ /\ \E r \in RunIds : \E i \in 1..Len(frames[r]), e \in ExitCodes, o \in Outputs :
             execute_step(r, i, e, o)
       /\ UNCHANGED other_vars
    \/ /\ \E r \in RunIds : \E i \in 1..Len(frames[r]) :
             \E order \in Orders(Children(frames[r], i)) : group_collect(r, i, order)
       /\ UNCHANGED other_vars

NextTermination ==
    \/ /\ job_counter < MaxRuns
       /\ \A r \in RunIds : driver[r].pc = "done"
       /\ \E p \in DOMAIN Manifests, c \in ChatIds, m \in MessageIds, fetched \in BOOLEAN :
             run_pipeline(p, c, m, fetched)
       /\ UNCHANGED start_frame
    \/ EngineStep

TerminationSpec == Init /\ [][NextTermination]_vars /\ WF_vars(EngineStep)

-----------------------------------------------------------------------------
(* The engine with a chat that fails: edit_message_text of the final       *)
(* status-message edit and send_message of the completion message can each *)
(* raise, and the user presses the buttons of the confirmation jobs.       *)

ChatManifests == {"seq.yaml", "gate.yaml", "ask.yaml"}

NextChat ==
    \/ /\ job_counter < MaxRuns
       /\ \A r \in RunIds : driver[r].pc = "done"
       /\ \E p \in ChatManifests, c \in ChatIds, m \in MessageIds, fetched \in BOOLEAN :
             run_pipeline(p, c, m, fetched)
       /\ UNCHANGED start_frame
    \/ /\ \E r \in RunIds : \E n \in ConfirmationNames(r), a \in {"confirm", "cancel"} :
             handle_callback(a, r, n)
       /\ UNCHANGED other_vars
    \/ EngineStep

ChatSpec == Init /\ [][NextChat]_vars

-----------------------------------------------------------------------------
(* Vocabulary of the properties *)

JobType(r, i) == get_job(running_jobs[r].pipeline_name, frames[r][i].name).type

\* frame i of run r is an execution of JobGroupExecutor.execute
IsGroup(r, i) == frames[r][i].direct \/ JobType(r, i) = "job_group"

\* frame i of run r is the container job of process_job
IsContainer(r, i) == ~frames[r][i].direct /\ JobType(r, i) = "default"

\* frame i of run r is a confirmation job dispatched by process_job to the
\* ConfirmationJobExecutor
IsConfirmation(r, i) ==
    ~frames[r][i].direct /\ JobType(r, i) = "confirmation" /\ bot
    /\ frames[r][i].pc # "created"

IsDone(r, i) == frames[r][i].pc = "done"

\* the frame returned a result (it did not raise and was not cancelled)
Returned(r, i) == IsDone(r, i) /\ frames[r][i].outcome \in Terminal

-----------------------------------------------------------------------------
-----------------------------------------------------------------------------
\* the frames of the top-level jobs of run r, in the order process_pipeline
\* started them
TopFrames(r) ==
    LET idx == [k \in 1..Len(frames[r]) |-> k]
    IN  SelectSeq(idx, LAMBDA k : frames[r][k].parent = 0)

AllJobsSucceeded(r) ==
    /\ Len(TopFrames(r)) = Len(list_jobs(running_jobs[r].pipeline_name))
    /\ Len(TopFrames(r)) > 0
    /\ \A n \in 1..Len(TopFrames(r)) : frames[r][TopFrames(r)[n]].outcome = "success"

\* top-level jobs start in manifest order, one at a time, each only after
\* the one before it has returned success
TopLevelOrder(r) ==
    LET tops == TopFrames(r)
        jobs == list_jobs(running_jobs[r].pipeline_name)
    IN  /\ Len(tops) <= Len(jobs)
        /\ \A n \in 1..Len(tops) : frames[r][tops[n]].name = jobs[n]
        /\ \A n \in 1..Len(tops) : n < Len(tops) =>
              /\ frames[r][tops[n]].outcome = "success"
              /\ \A k \in 1..(tops[n + 1] - 1) : frames[r][k].pc = "done"

\* C3: within a run the top-level jobs are started in manifest order and one
\* at a time, job k+1 only after job k returned success; after the first
\* job that does not return success none is started and the run's final
\* status is failed; if every job returns success the final status is
\* success.
C3_SequentialRun ==
    \A r \in RunIds :
        /\ TopLevelOrder(r)
        /\ driver[r].pc = "done" =>
              running_jobs[r].status =
                  IF AllJobsSucceeded(r) THEN "success" ELSE "failed"

\* C4: the steps of a container job run in manifest order, one at a time;
\* after the first step that exits non-zero no later step is run, the job
\* returns failed and steps_completed counts the steps that exited 0 before
\* that step.
C4_StepsSequential ==
    \A r \in RunIds : \A i \in DOMAIN frames[r] :
        IsContainer(r, i) =>
            LET f == frames[r][i] IN
            /\ \A n \in 1..Len(f.pulls) : f.pulls[n][1] = n
            /\ \A n \in 1..Len(f.execs) :
                  /\ f.pulls[f.execs[n][1]] = <<f.execs[n][1], TRUE>>
                  /\ \A m \in 1..Len(f.execs) : m < n => f.execs[m][1] < f.execs[n][1]
            /\ \A n \in 1..Len(f.execs) :
                  f.execs[n][2] # 0 =>
                     /\ n = Len(f.execs)
                     /\ Len(f.pulls) = f.execs[n][1]
                     /\ f.pc = "done" /\ f.outcome = "failed"
                     /\ f.steps_completed =
                            Cardinality({m \in 1..(n - 1) : f.execs[m][2] = 0})

\* a container job whose first step exited 0 and whose second step exited
\* non-zero, with a third step left in the manifest
C4_Witness ==
    \E r \in RunIds : \E i \in DOMAIN frames[r] :
        /\ IsContainer(r, i) /\ IsDone(r, i)
        /\ Len(frames[r][i].execs) = 2
        /\ frames[r][i].execs[1][2] = 0
        /\ frames[r][i].execs[2][2] # 0
        /\ frames[r][i].execs[2][1] <
              Len(get_job(running_jobs[r].pipeline_name, frames[r][i].name).steps)

\* C5: once the driver task of a run has finished and the registry holds a
\* terminal status for it, the last STATUS the log reader reports for the
\* run is success, failed or cancelled.
C5_LastStatusTerminal ==
    \A r \in RunIds :
        (driver[r].pc = "done" /\ running_jobs[r].status \in Terminal)
            => get_job_status(log, r) \in Terminal

\* the step-completion lines (STATUS with an EXIT code) of step `name` of run r
CompletionLines(r, name) ==
    {k \in DOMAIN log : /\ log[k].job = r /\ log[k].step = name
                        /\ log[k].kind = "STATUS" /\ log[k].exit # NoExit}

\* the steps named `name` that container jobs of run r have reached (their
\* step-level STATUS running is written), once those jobs have returned
ReachedSteps(r, name) ==
    UNION {{<<i, n>> : n \in {m \in 1..Len(frames[r][i].pulls) :
                get_job(running_jobs[r].pipeline_name, frames[r][i].name)
                    .steps[frames[r][i].pulls[m][1]].name = name}} :
           i \in {k \in DOMAIN frames[r] : IsContainer(r, k)}}

StepNames(r) ==
    UNION {{get_job(running_jobs[r].pipeline_name, j).steps[t].name :
                t \in 1..Len(get_job(running_jobs[r].pipeline_name, j).steps)} :
           j \in DOMAIN Manifests[running_jobs[r].pipeline_name].jobs}

\* C6: every step a container job reached has exactly one step-completion
\* STATUS line with an EXIT code by the time the job has returned, success
\* exactly for exit code 0, also when the step's image could not be acquired.
C6_OneCompletionPerStep ==
    \A r \in RunIds :
        (\A i \in DOMAIN frames[r] : IsContainer(r, i) => Returned(r, i)) =>
            \A name \in StepNames(r) :
                /\ Cardinality(CompletionLines(r, name)) = Cardinality(ReachedSteps(r, name))
                /\ \A k \in CompletionLines(r, name) :
                      (log[k].content = "success") <=> (log[k].exit = 0)

-----------------------------------------------------------------------------
\* the callbacks handled so far for the key of job `name` of run r
KeyCallbacks(r, name) ==
    SelectSeq(callbacks, LAMBDA c : c.job_id = r /\ c.job_name = name)

\* the callbacks that handle_callback reported as having resolved the key
ResolvingCallbacks(r, name) ==
    SelectSeq(KeyCallbacks(r, name), LAMBDA c : c.result # "None")

\* the timeout branch of ConfirmationJobExecutor.execute has written its
\* ERROR record for job `name` of run r
TimedOut(r, name) ==
    \E k \in DOMAIN log :
        /\ log[k].job = r /\ log[k].step = name
        /\ log[k].kind = "ERROR" /\ log[k].content = "confirmation timeout"

\* C7: a confirmation job dispatched by process_job for a run with chat and
\* message coordinates stays suspended until a callback for its key or the
\* timeout: it does not end before either, and it returns success after a
\* confirm callback and cancelled after a cancel callback.
C7_ConfirmationWaits ==
    \A r \in RunIds : \A i \in DOMAIN frames[r] :
        (IsConfirmation(r, i) /\ HasCoords(r) /\ IsDone(r, i)) =>
            LET name == frames[r][i].name IN
            /\ KeyCallbacks(r, name) # <<>> \/ TimedOut(r, name)
            /\ (KeyCallbacks(r, name) # <<>> /\ ~TimedOut(r, name)) =>
                  frames[r][i].outcome =
                      IF Head(KeyCallbacks(r, name)).action = "confirm"
                      THEN "success" ELSE "cancelled"

\* C8: at most one resolver takes effect per registration of a key: no more
\* callbacks are reported as resolving a key than jobs registered it, and
\* the outcome of the job is the decision of its resolver, a confirm
\* callback (success), a cancel callback or a cancellation (cancelled), or
\* the timeout (failed).
C8_FirstResolverDecides ==
    \A r \in RunIds : \A i \in DOMAIN frames[r] :
        (IsConfirmation(r, i) /\ HasCoords(r)) =>
            LET name == frames[r][i].name
                registrations == {k \in DOMAIN frames[r] :
                                    IsConfirmation(r, k) /\ frames[r][k].name = name}
            IN
            /\ Len(ResolvingCallbacks(r, name)) <= Cardinality(registrations)
            /\ IsDone(r, i) =>
                  \/ /\ frames[r][i].outcome = "success"
                     /\ \E n \in DOMAIN ResolvingCallbacks(r, name) :
                           ResolvingCallbacks(r, name)[n].action = "confirm"
                  \/ /\ frames[r][i].outcome = "cancelled"
                     /\ \/ frames[r][i].cancel_requested
                        \/ \E n \in DOMAIN ResolvingCallbacks(r, name) :
                              ResolvingCallbacks(r, name)[n].action = "cancel"
                  \/ /\ frames[r][i].outcome = "failed"
                     /\ TimedOut(r, name)

\* C9: a confirmation job that ends with no callback having resolved its key
\* (the timeout case) has returned failed after writing its ERROR record,
\* and the pending-confirmation table holds no registration for its key.
C9_TimeoutUnregisters ==
    \A r \in RunIds : \A i \in DOMAIN frames[r] :
        (/\ IsConfirmation(r, i) /\ HasCoords(r) /\ IsDone(r, i)
         /\ ResolvingCallbacks(r, frames[r][i].name) = <<>>
         /\ ~frames[r][i].cancel_requested) =>
            /\ frames[r][i].outcome = "failed"
            /\ TimedOut(r, frames[r][i].name)
            /\ Key(r, frames[r][i].name) \notin DOMAIN pending_confirmations

\* C10: when the image of a step cannot be acquired no container is created
\* for the step, the step counts as failed, the job's status is failed and
\* the job stops: no later step of the job is started.
C10_ImageUnavailableStopsJob ==
    \A r \in RunIds : \A i \in DOMAIN frames[r] :
        IsContainer(r, i) =>
            LET f == frames[r][i] IN
            \A n \in 1..Len(f.pulls) :
                ~f.pulls[n][2] =>
                    /\ \A m \in 1..Len(f.execs) : f.execs[m][1] # f.pulls[n][1]
                    /\ f.steps_failed >= 1
                    /\ f.job_status = "failed"
                    /\ IsDone(r, i) => f.outcome = "failed"
                    /\ n = Len(f.pulls)

-----------------------------------------------------------------------------
\* the lines of lg whose JOB field is R, in file order
OwnLines(lg, R) == SelectSeq(lg, LAMBDA line : line.job = R)

\* the status of the last STATUS line of lg whose JOB field is R
LastOwnStatus(lg, R) ==
    LET own == SelectSeq(OwnLines(lg, R), LAMBDA line : line.kind = "STATUS")
    IN  IF own = <<>> THEN "None" ELSE own[Len(own)].content

\* C11: for every run id R and every log file the writers of several runs
\* can produce, get_job_logs(R) is exactly the lines whose JOB field is R, in
\* file order, and get_job_status(R) is the last status written for R: no
\* line of another run is included, also when the digits of R begin the
\* digits of the other run's id.
C11_ReadersSelectOwnRun ==
    \A R \in LoggedJobIds :
        /\ get_job_logs(log, R) = OwnLines(log, R)
        /\ get_job_status(log, R) = LastOwnStatus(log, R)

\* C12: run ids are dense and monotonic: after any sequence of run_pipeline
\* calls, failed ones included, the registry holds exactly the ids 1..n, and
\* every id a call returns is greater than all ids returned before.
C12_RunIdsDenseMonotonic ==
    /\ [](RunIds = 1..Cardinality(RunIds))
    /\ [][\A r \in (DOMAIN running_jobs') \ RunIds : \A q \in RunIds : r > q]_vars

\* the ids run_pipeline has returned to its callers
ReturnedIds ==
    {R \in 1..job_counter : \A k \in DOMAIN start_errors : start_errors[k] # R}

\* C13: the status query returns a record for every id run_pipeline has
\* returned, in every later state and whatever the status of the run (no run
\* is removed from the registry), and returns None for every other id.
C13_NoEviction ==
    \A R \in 0..(MaxRuns + 1) :
        IF R \in ReturnedIds
        THEN /\ orchestrator_get_job_status(running_jobs, R) # NoInfo
             /\ orchestrator_get_job_status(running_jobs, R).job_id = R
        ELSE orchestrator_get_job_status(running_jobs, R) = NoInfo

\* a run whose driver has finished with a terminal status and whose record
\* the status query still returns
C13_Witness ==
    \E R \in ReturnedIds :
        /\ driver[R].pc = "done"
        /\ orchestrator_get_job_status(running_jobs, R).status \in Terminal

-----------------------------------------------------------------------------
\* the names the entries of group job_config refer to
Referenced(job_config) ==
    {job_config.jobs[k].name : k \in DOMAIN job_config.jobs}
    \cup {job_config.job_groups[k].name : k \in DOMAIN job_config.job_groups}

\* the names reached from `names` by following group entries n times
RECURSIVE ReachedFrom(_, _, _)
ReachedFrom(config, names, n) ==
    IF n = 0 THEN names
    ELSE ReachedFrom(config,
            names \cup UNION {Referenced(config.jobs[g]) :
                                g \in {x \in names \cap DOMAIN config.jobs :
                                          config.jobs[x].type = "job_group"}},
            n - 1)

\* group g of the manifest references itself through its entries
SelfReferencing(config, g) ==
    /\ config.jobs[g].type = "job_group"
    /\ g \in ReachedFrom(config, Referenced(config.jobs[g]), Cardinality(DOMAIN config.jobs))

\* C15: parse rejects every manifest in which a group references itself,
\* directly or through other groups, by its jobs or job_groups entries.
C15_CyclesRejected ==
    parsed = "PipelineConfig" =>
        \A g \in DOMAIN yaml_content.jobs : ~SelfReferencing(yaml_content, g)

\* C16: in every pipeline parse accepts, every name a group entry refers to
\* is a key of the job mapping: a dangling reference is rejected by parse.
C16_ReferencesResolve ==
    parsed = "PipelineConfig" =>
        \A g \in DOMAIN yaml_content.jobs :
            yaml_content.jobs[g].type = "job_group" =>
                Referenced(yaml_content.jobs[g]) \subseteq DOMAIN yaml_content.jobs

\* C17: in every pipeline parse accepts, every step of every container job
\* resolves to an image, its own or the job's.
C17_StepsHaveImage ==
    parsed = "PipelineConfig" =>
        \A j \in DOMAIN yaml_content.jobs :
            yaml_content.jobs[j].type = "default" =>
                \A k \in DOMAIN yaml_content.jobs[j].steps :
                    StepImage(yaml_content.jobs[j], yaml_content.jobs[j].steps[k])

-----------------------------------------------------------------------------
\* s can be obtained from t by deleting lines
RECURSIVE IsSubsequence(_, _)
IsSubsequence(s, t) ==
    IF s = <<>> THEN TRUE
    ELSE IF t = <<>> THEN FALSE
    ELSE IF Head(s) = Head(t) THEN IsSubsequence(Tail(s), Tail(t))
    ELSE IsSubsequence(s, Tail(t))

\* C19: the log is append-only: whatever the interleaving of the writes of
\* several runs, a step leaves every existing line in place and can only add
\* lines after them, and get_job_logs(R) is a subsequence of the file's
\* lines in file order.
C19_AppendOnly ==
    [][/\ IsPrefix(log, log')
       /\ \A R \in LoggedJobIds : IsSubsequence(get_job_logs(log', R), log')]_vars

\* a file with lines of two runs, written one after the other, of which
\* get_job_logs(2) returns a proper, non-empty part
C19_Witness ==
    /\ Len(log) >= 2
    /\ \E k \in DOMAIN log : log[k].job # 2
    /\ get_job_logs(log, 2) # <<>>
    /\ get_job_logs(log, 2) # log

\* the number of lines of lg equal to line
Occurrences(lg, line) == Cardinality({k \in DOMAIN lg : lg[k] = line})

\* the _write_line calls for `line` that have finished
Finished(line) == {w \in DOMAIN writers : writers[w].pc = "closed" /\ writers[w].line = line}

-----------------------------------------------------------------------------
\* C18: an executor (timer, confirmation, container job, job group) that is
\* cancelled from outside while suspended returns with status cancelled,
\* after passing the cancellation on to the child tasks it spawned; a
\* cancelled confirmation job leaves no registration for its key.
C18_CancelledExecutorsReturnCancelled ==
    \A t \in shutdown.suspended :
        LET r == t[1]
            i == t[2]
        IN  IsDone(r, i) =>
                /\ frames[r][i].outcome = "cancelled"
                /\ \A k \in Children(frames[r], i) : frames[r][k].cancel_requested
                /\ IsConfirmation(r, i) =>
                      Key(r, frames[r][i].name) \notin DOMAIN pending_confirmations

-----------------------------------------------------------------------------
(* The worker pool *)

\* the container steps a worker thread is running
RunningSteps == {k \in Busy(pool) : pool[k].fn = "_execute_step_sync"}

\* the positions a call goes through, in order
CallRank(state) == CASE state = "queued" -> 0 [] state = "running" -> 1 [] OTHER -> 2

\* C21: at most five container steps execute at the same time, whatever
\* number of calls the runs and group children make; a call made while five
\* are executing is kept (it is never dropped and never fails: it stays in
\* the pool and only moves from queued to running to done) and it runs once
\* a worker thread is free.
C21_PoolOfFive ==
    /\ [](Cardinality(RunningSteps) <= 5)
    /\ [][\A k \in DOMAIN pool :
            /\ k \in DOMAIN pool'
            /\ pool'[k].fn = pool[k].fn
            /\ CallRank(pool'[k].state) >= CallRank(pool[k].state)]_vars
    /\ \A k \in 1..MaxCalls :
            (k \in Queued(pool)) ~> (k \in DOMAIN pool /\ pool[k].state # "queued")

\* five container steps are executing and a sixth call for a step waits
C21_Witness ==
    /\ Cardinality(RunningSteps) = 5
    /\ \E k \in Queued(pool) : pool[k].fn = "_execute_step_sync"

-----------------------------------------------------------------------------
(* Failed runs and their ERROR records *)

\* the ERROR records of the log whose JOB field is r
ErrorLines(lg, r) == SelectSeq(OwnLines(lg, r), LAMBDA line : line.kind = "ERROR")

\* the runs the registry shows as failed
FailedRuns == {r \in RunIds : running_jobs[r].status = "failed"}

\* C22: every run whose status is failed has at least one ERROR record with
\* its run id in the log, whatever made it fail.
C22_FailedRunHasError ==
    \A r \in FailedRuns : ErrorLines(log, r) # <<>>

\* a run has failed because a job returned failed (no exception reached the
\* driver) and its driver has ended
C22_Witness ==
    \E r \in FailedRuns :
        /\ driver[r].pc = "done"
        /\ ~running_jobs[r].error
        /\ running_jobs[r].result.status = "failed"
        /\ ErrorLines(log, r) # <<>>

-----------------------------------------------------------------------------
(* The order of the top-level jobs *)

\* the names of the top-level jobs run r has started, in starting order
StartedTopJobs(r) == [n \in 1..Len(TopFrames(r)) |-> frames[r][TopFrames(r)[n]].name]

-----------------------------------------------------------------------------
(* Callbacks without a registration *)

\* the step is a call of handle_callback
CallbackHandled == Len(callbacks') = Len(callbacks) + 1

\* the key of the callback the step has handled
HandledKey ==
    Key(callbacks'[Len(callbacks')].job_id, callbacks'[Len(callbacks')].job_name)

\* C24: a confirm or cancel callback whose key is not registered returns
\* None, records no decision, sets no event, and leaves the table of pending
\* confirmations and every run as they were.
C24_UnregisteredCallbackIsNoOp ==
    [][(CallbackHandled /\ HandledKey \notin DOMAIN pending_confirmations) =>
            /\ callbacks'[Len(callbacks')].result = "None"
            /\ UNCHANGED <<pending_confirmations, job_counter, running_jobs, driver,
                           frames, log, start_errors, status_updates>>]_vars

\* a button of a dispatched confirmation job was pressed while its key was
\* not registered
C24_Witness ==
    /\ callbacks # <<>>
    /\ Key(callbacks[1].job_id, callbacks[1].job_name) \notin DOMAIN pending_confirmations
    /\ callbacks[1].result = "None"

-----------------------------------------------------------------------------
(* The callback data of the confirmation buttons *)

\* C25: the callback data <action>_<runID>_<jobName> built for a button is
\* decoded by the handler to the same action, run id and job name, job names
\* with underscores included, and to the key <runID>_<jobName> under which
\* the confirmation was registered.
C25_CallbackDataRoundTrip ==
    button.pressed =>
        /\ button.decoded.action = button.action
        /\ button.decoded.job_id = button.job_id
        /\ button.decoded.job_name = button.job_name
        /\ button.decoded.key = button.key
        /\ button.key = Str(button.job_id) \o <<"_">> \o button.job_name

\* the button of a job whose name holds an underscore, for a run id of
\* several digits, was pressed and decoded
C25_Witness ==
    /\ button.pressed
    /\ \E i \in 1..Len(button.job_name) : button.job_name[i] = "_"
    /\ button.job_id >= 10
    /\ button.decoded.job_name = button.job_name

-----------------------------------------------------------------------------
(* The sidecar files *)

\* C26: every mutation of the pipelines and subscriptions files is atomic:
\* a reader never finds an empty or a partial file, the end of the process
\* inside a mutation included.  Stated for the readers that come when no
\* save of the file is in flight: the file holds a whole JSON document.
C26_SavesAtomic ==
    \A f \in FileNames : saving.file # f => files[f].written = "complete"

\* C27: discover_pipelines gives a manifest that is new to the file
\* auto_run = false and keeps the auto_run the file already holds for a
\* manifest, so a flag set by set_auto_run survives; entries of manifests the
\* source did not return are unchanged.
C27_DiscoverPreservesAutoRun ==
    saving.op = "discover_pipelines" =>
        /\ \A n \in DOMAIN saving.before :
                /\ n \in DOMAIN saving.data
                /\ saving.data[n].auto_run = saving.before[n].auto_run
        /\ \A n \in DOMAIN saving.before \ saving.found :
                saving.data[n] = saving.before[n]
        /\ \A n \in saving.found \ DOMAIN saving.before :
                /\ n \in DOMAIN saving.data
                /\ ~saving.data[n].auto_run

-----------------------------------------------------------------------------
(* A group and the tasks below it *)

\* frame k is a task started by frame i or by a group below frame i
RECURSIVE IsDescendant(_, _, _)
IsDescendant(fs, k, i) ==
    /\ fs[k].parent # 0
    /\ \/ fs[k].parent = i
       \/ IsDescendant(fs, fs[k].parent, i)

Descendants(fs, i) == {k \in DOMAIN fs : IsDescendant(fs, k, i)}

-----------------------------------------------------------------------------
(* The entries of a group and the tasks started for them *)

\* the number of entries of `jobs` and `job_groups` of the group of frame i
Entries(r, i) ==
    LET cfg == get_job(running_jobs[r].pipeline_name, frames[r][i].name)
    IN  Len(cfg.jobs) + Len(cfg.job_groups)

-----------------------------------------------------------------------------
(* The status pusher of a run *)

\* run r has a pusher and its status in the registry is terminal
TerminalWithPusher(r) ==
    /\ r \in RunIds
    /\ status_updates[r].pusher # "none"
    /\ running_jobs[r].status \in Terminal

\* the pusher of run r has left its loop
PusherEnded(r) == r \in DOMAIN status_updates /\ status_updates[r].pusher = "done"

\* C30: for every run that has a status pusher, the pusher does not stop
\* while the status is pending or running; once the status is terminal, on
\* the normal and on the exception path, it makes one final edit and ends,
\* and edits nothing afterwards; the driver and the pusher together make at
\* most two final edits.
C30_PusherLifecycle ==
    /\ [](\A r \in RunIds :
            /\ status_updates[r].pusher = "done" =>
                    /\ running_jobs[r].status \in Terminal
                    /\ status_updates[r].pusher_final = 1
            /\ status_updates[r].pusher # "done" => status_updates[r].pusher_final = 0
            /\ status_updates[r].pusher_final + status_updates[r].driver_final <= 2)
    /\ [][\A r \in RunIds :
            status_updates[r].pusher = "done" =>
                /\ status_updates'[r].pusher = "done"
                /\ status_updates'[r].pusher_final = status_updates[r].pusher_final]_vars
    /\ \A r \in 1..MaxRuns :
            TerminalWithPusher(r) ~> PusherEnded(r)

\* the pusher of a run has made its final edit and ended, in a run whose
\* driver made a final edit too and in a run that ended in the except branch
C30_Witness ==
    \E r \in RunIds :
        /\ status_updates[r].pusher = "done"
        /\ status_updates[r].pusher_final = 1
        /\ driver[r].pc = "done"
        /\ \/ status_updates[r].driver_final = 1
           \/ running_jobs[r].error

-----------------------------------------------------------------------------
\* the STATUS records the driver of run r wrote under the step name
\* "orchestrator", in file order
DriverStatuses(r) ==
    SelectSeq(log, LAMBDA line : /\ line.job = r /\ line.step = "orchestrator"
                                 /\ line.kind = "STATUS")

\* the last STATUS record the driver of run r wrote, "None" when it wrote none
DriverFinalStatus(r) ==
    IF DriverStatuses(r) = <<>> THEN "None"
    ELSE DriverStatuses(r)[Len(DriverStatuses(r))].content

\* C31: whenever the registry holds a terminal status for a run, finished_at
\* is recorded for it and the last STATUS record its driver wrote carries
\* that same status, also when the orchestration raised and the run was
\* marked failed.
C31_TerminalRunIsRecorded ==
    \A r \in RunIds :
        running_jobs[r].status \in Terminal =>
            /\ running_jobs[r].finished
            /\ DriverFinalStatus(r) = running_jobs[r].status

-----------------------------------------------------------------------------
\* the names of the container jobs of manifest p
ContainerJobs(p) ==
    {j \in DOMAIN Manifests[p].jobs : Manifests[p].jobs[j].type = "default"}

\* the names of the steps of job j of manifest p
JobStepNames(p, j) ==
    {Manifests[p].jobs[j].steps[t].name : t \in 1..Len(Manifests[p].jobs[j].steps)}

\* the records of run r that the container job j writes: its own STATUS
\* records and every record of one of its steps, in file order
JobRecords(r, j) ==
    SelectSeq(log, LAMBDA line :
        /\ line.job = r
        /\ \/ line.step = j /\ line.kind = "STATUS"
           \/ line.step \in JobStepNames(running_jobs[r].pipeline_name, j))

\* where the container job is after writing `line` when it was at `at`
\* (out: not running, in: between steps, started: the step named `step`
\* has its STATUS running, failed: that step's completion record carries a
\* non-zero exit code); bad when the line is out of program order
RecordStep(at, line, j) ==
    CASE at.at = "out" /\ line.step = j /\ line.kind = "STATUS"
            /\ line.content = "running" /\ line.exit = NoExit ->
                [at |-> "in", step |-> "None"]
      [] at.at = "in" /\ line.step = j /\ line.kind = "STATUS"
            /\ line.content \in {"success", "failed"} /\ line.exit = NoExit ->
                [at |-> "out", step |-> "None"]
      [] at.at = "in" /\ line.step # j /\ line.kind = "STATUS"
            /\ line.content = "running" /\ line.exit = NoExit ->
                [at |-> "started", step |-> line.step]
      [] at.at = "started" /\ line.step = at.step /\ line.kind = "LOG" -> at
      [] at.at = "started" /\ line.step = at.step /\ line.kind = "STATUS"
            /\ line.exit = 0 /\ line.content = "success" ->
                [at |-> "in", step |-> "None"]
      [] at.at = "started" /\ line.step = at.step /\ line.kind = "STATUS"
            /\ line.exit \notin {0, NoExit} /\ line.content = "failed" ->
                [at |-> "failed", step |-> at.step]
      \* the step's image could not be acquired: no container ran
      [] at.at = "started" /\ line.step = at.step /\ line.kind = "ERROR" ->
                [at |-> "in", step |-> "None"]
      [] at.at = "failed" /\ line.step = at.step /\ line.kind = "ERROR" ->
                [at |-> "in", step |-> "None"]
      [] OTHER -> [at |-> "bad", step |-> "None"]

RECURSIVE RecordScan(_, _, _)
RecordScan(at, lines, j) ==
    IF lines = <<>> THEN at
    ELSE RecordScan(RecordStep(at, Head(lines), j), Tail(lines), j)

-----------------------------------------------------------------------------
\* the driver of run r made its final status-message edit and the edit
\* raised: the message still has the text it was created with (no status
\* pusher runs in ChatSpec, so only the driver edits the message)
DriverEditFailed(r) ==
    status_updates[r].driver_final = 1 /\ status_updates[r].shown = "None"

\* C33: a failed chat message edit changes no outcome.  A run whose final
\* status-message edit failed has the result process_pipeline returned, and
\* its status is that result's status unless the completion message could
\* not be posted; a confirmation job whose key got a confirm callback has
\* returned success, and one whose key got a cancel callback has returned
\* cancelled, whether or not the edit of its prompt message succeeds.
C33_EditFailureChangesNothing ==
    \A r \in RunIds :
        /\ (DriverEditFailed(r) /\ driver[r].pc = "done") =>
              /\ running_jobs[r].result.status \in Terminal
              /\ running_jobs[r].error \/ running_jobs[r].status = running_jobs[r].result.status
        /\ \A i \in DOMAIN frames[r] :
              (/\ IsConfirmation(r, i) /\ HasCoords(r) /\ IsDone(r, i)
               /\ KeyCallbacks(r, frames[r][i].name) # <<>>) =>
                    frames[r][i].outcome =
                        IF Head(KeyCallbacks(r, frames[r][i].name)).action = "confirm"
                        THEN "success" ELSE "cancelled"

-----------------------------------------------------------------------------
\* the subscriptions on disk, and the (chat, pipeline) pairs a table holds
Subscriptions == files["subscriptions.json"].data

Pairs(table) == {<<c, n>> \in SubscriberChats \X SubscribedPipelines :
                    c \in DOMAIN table /\ n \in DOMAIN table[c]}

\* this step is a call of run_pipeline that registered a run and returned
\* its id
StartReturned == job_counter' = job_counter + 1 /\ job_counter' \in DOMAIN running_jobs'

\* this step is a call of run_pipeline that raised
StartRaised == Len(start_errors') = Len(start_errors) + 1

\* C34: a start that returns R sets the current run of the subscription of
\* its chat to its pipeline to R when that subscription exists; it creates
\* no subscription, changes no message id and leaves every other
\* subscription as it is.  subscribe_chat saves the pair it was called for
\* with no current run.
C34_StartAttachesToSubscription ==
    /\ [][StartReturned =>
            LET R == job_counter'
                own == <<running_jobs'[R].chat_id, running_jobs'[R].pipeline_name>>
                before == Subscriptions
                after == files'["subscriptions.json"].data
            IN  /\ files'["subscriptions.json"].written = "complete"
                /\ Pairs(after) = Pairs(before)
                /\ DOMAIN after = DOMAIN before
                /\ \A pr \in Pairs(before) :
                      /\ after[pr[1]][pr[2]].message_id = before[pr[1]][pr[2]].message_id
                      /\ after[pr[1]][pr[2]].job_id =
                            IF pr = own THEN R ELSE before[pr[1]][pr[2]].job_id]_vars
    /\ [][(saving = NoSave /\ saving'.op = "subscribe_chat") =>
            \A pr \in Pairs(saving'.data) :
                (pr \notin Pairs(saving'.before)
                 \/ saving'.data[pr[1]][pr[2]] # saving'.before[pr[1]][pr[2]]) =>
                    saving'.data[pr[1]][pr[2]].job_id = NoId]_vars
    /\ [][(saving.op = "subscribe_chat" /\ saving' = NoSave) =>
            files'["subscriptions.json"] = [written |-> "complete", data |-> saving.data]]_vars

\* a chat subscribes again to the pipeline whose run R, started from that
\* chat, is the subscription's current run, while the other chat started a
\* run of a pipeline it is not subscribed to and is subscribed to another
\* pipeline
C34_Witness ==
    /\ saving.op = "subscribe_chat"
    /\ \E c \in SubscriberChats : \E R \in RunIds :
          /\ <<c, "ask.yaml">> \in Pairs(saving.before)
          /\ running_jobs[R].chat_id = c
          /\ saving.before[c]["ask.yaml"].job_id = R
          /\ saving.data[c]["ask.yaml"].job_id = NoId
          /\ \E d \in SubscriberChats \ {c} : \E Q \in RunIds \ {R} :
                /\ running_jobs[Q].chat_id = d
                /\ <<d, "ask.yaml">> \notin Pairs(saving.before)
                /\ <<d, "seq.yaml">> \in Pairs(saving.before)
                /\ saving.before[d]["seq.yaml"].job_id = NoId

\* C39: a call of run_pipeline that raises because the manifest cannot be
\* fetched or parsed leaves the engine as it was: the registry, the driver
\* tasks, the subscriptions, the statuses of the runs and the counter the
\* next run id is taken from.
C39_FailedStartHasNoEffect ==
    [][StartRaised =>
          /\ running_jobs' = running_jobs
          /\ driver' = driver
          /\ frames' = frames
          /\ status_updates' = status_updates
          /\ files' = files
          /\ job_counter' = job_counter]_vars

-----------------------------------------------------------------------------
\* the timer jobs of manifest p
TimerJobs(p) == {j \in DOMAIN Manifests[p].jobs : Manifests[p].jobs[j].type = "timer"}

\* the executions of TimerJobExecutor.execute for job j in run r that have
\* begun
TimerFrames(r, j) ==
    {i \in DOMAIN frames[r] :
        frames[r][i].name = j /\ ~frames[r][i].direct /\ frames[r][i].pc # "created"}

\* the records of run r under step name j, in file order
StepRecords(r, j) == SelectSeq(log, LAMBDA line : line.job = r /\ line.step = j)

\* how many of the first n records of recs are of kind `kind` with content
\* in `contents`
CountRecords(recs, n, kind, contents) ==
    Cardinality({k \in 1..n : recs[k].kind = kind /\ recs[k].content \in contents})

\* C35: a timer job whose duration int() accepts writes STATUS running, then
\* one LOG record, suspends, and on resuming writes STATUS success and
\* returns success; a timer job whose duration int() rejects writes one
\* ERROR record and returns failed at once, without suspending and without
\* any STATUS record.
C35_TimerJob ==
    \A r \in RunIds : \A j \in TimerJobs(running_jobs[r].pipeline_name) :
        LET recs == StepRecords(r, j)
            N == Len(recs)
            started == TimerFrames(r, j)
            returned == {i \in started : frames[r][i].pc = "done"}
            waits == {"waiting"}
        IN  IF CoercibleToInt(get_job(running_jobs[r].pipeline_name, j).duration)
            THEN /\ \A i \in started : frames[r][i].pc \in {"sleeping", "done"}
                 /\ \A i \in returned : frames[r][i].outcome = "success"
                 /\ CountRecords(recs, N, "STATUS", {"running"}) = Cardinality(started)
                 /\ CountRecords(recs, N, "LOG", waits) = Cardinality(started)
                 /\ CountRecords(recs, N, "STATUS", {"success"}) = Cardinality(returned)
                 /\ N = 2 * Cardinality(started) + Cardinality(returned)
                 /\ \A n \in 1..N :
                       /\ CountRecords(recs, n, "LOG", waits)
                             <= CountRecords(recs, n, "STATUS", {"running"})
                       /\ CountRecords(recs, n, "STATUS", {"success"})
                             <= CountRecords(recs, n, "LOG", waits)
            ELSE /\ \A i \in started :
                       frames[r][i].pc = "done" /\ frames[r][i].outcome = "failed"
                 /\ N = Cardinality(started)
                 /\ \A n \in 1..N : recs[n].kind = "ERROR"

\* a run in which a timer job with a duration int() accepts has slept and
\* returned success and a timer job with a duration int() rejects has
\* returned failed
C35_Witness ==
    \E r \in RunIds :
        LET p == running_jobs[r].pipeline_name IN
        /\ \E j \in TimerJobs(p) : \E i \in TimerFrames(r, j) :
              /\ CoercibleToInt(get_job(p, j).duration)
              /\ frames[r][i].pc = "done" /\ frames[r][i].outcome = "success"
        /\ \E j \in TimerJobs(p) : \E i \in TimerFrames(r, j) :
              /\ ~CoercibleToInt(get_job(p, j).duration)
              /\ frames[r][i].pc = "done" /\ frames[r][i].outcome = "failed"
              /\ Len(StepRecords(r, j)) = 1

-----------------------------------------------------------------------------
\* C36: the status of a run only moves from pending to running and from
\* running to success, failed or cancelled, a terminal status never changes,
\* and once the driver has written a terminal STATUS record the registry
\* reports that status: a run logged as success is not reported failed
\* later.
C36_StatusMonotonic ==
    /\ [][\A r \in RunIds :
            running_jobs'[r].status # running_jobs[r].status =>
                \/ running_jobs[r].status = "pending" /\ running_jobs'[r].status = "running"
                \/ running_jobs[r].status = "running" /\ running_jobs'[r].status \in Terminal]_vars
    /\ [](\A r \in RunIds :
            DriverFinalStatus(r) \in Terminal =>
                running_jobs[r].status = DriverFinalStatus(r))

-----------------------------------------------------------------------------
\* the names the job groups of manifest p refer to as members
GroupMembers(p) ==
    UNION {{Manifests[p].jobs[g].jobs[n].name : n \in DOMAIN Manifests[p].jobs[g].jobs}
           \cup {Manifests[p].jobs[g].job_groups[n].name :
                    n \in DOMAIN Manifests[p].jobs[g].job_groups} :
           g \in {j \in DOMAIN Manifests[p].jobs : Manifests[p].jobs[j].type = "job_group"}}

\* the executions of job j in run r that have begun
StartedFrames(r, j) ==
    {i \in DOMAIN frames[r] : frames[r][i].name = j /\ frames[r][i].pc # "created"}

\* the entries of the job groups of manifest p that name job j
MemberEntries(p, j) ==
    UNION {{<<g, "jobs", n>> :
                n \in {m \in DOMAIN Manifests[p].jobs[g].jobs :
                          Manifests[p].jobs[g].jobs[m].name = j}}
           \cup {<<g, "job_groups", n>> :
                n \in {m \in DOMAIN Manifests[p].jobs[g].job_groups :
                          Manifests[p].jobs[g].job_groups[m].name = j}} :
           g \in {k \in DOMAIN Manifests[p].jobs : Manifests[p].jobs[k].type = "job_group"}}

-----------------------------------------------------------------------------
\* the group executions frame i of fs runs under: its parent, the parent's
\* parent, and so on
RECURSIVE Ancestors(_, _)
Ancestors(fs, i) ==
    IF fs[i].parent = 0 THEN {}
    ELSE {fs[i].parent} \cup Ancestors(fs, fs[i].parent)

\* frame i of run r is an execution of a group inside an execution of that
\* same group: each such execution creates the next one
Respawned(r, i) ==
    /\ IsGroup(r, i)
    /\ \E k \in Ancestors(frames[r], i) :
          IsGroup(r, k) /\ frames[r][k].name = frames[r][i].name

\* run r was created by a start that returned
Created(r) == r \in RunIds

\* run r has a terminal status
Ended(r) == r \in RunIds /\ running_jobs[r].status \in Terminal

\* C38: under fair scheduling every run a start created reaches a terminal
\* status, for every pipeline parse accepts, with nested groups: no group
\* is executed inside an execution of itself, which would create tasks
\* without end, and every created run eventually has a terminal status.
C38_EveryRunEnds ==
    /\ [](\A r \in RunIds : \A i \in DOMAIN frames[r] : ~Respawned(r, i))
    /\ \A r \in 1..MaxRuns : Created(r) ~> Ended(r)

====
